---- MODULE Spec2Model ----
(***************************************************************************)
(* Model of the ad-composition pipeline of src/app.py:                     *)
(* InstagramAdGenerator.generate_instagram_ad and the helpers it calls.    *)
(* The /generate-ad and /scrape endpoints and the request teardown that    *)
(* run around it are modelled after the pipeline.                          *)
(*                                                                         *)
(* Texts are sequences of one-character strings (titles, prices, hex       *)
(* colours), so that `in`, lower() and slicing are computed, not assumed.  *)
(* A prompt is a sequence of segments [t, n]: t is a text, n = 0 when the  *)
(* text is carried whole; a run of an image description, whose content is  *)
(* opaque, has t = its label and n = the number of its characters kept.    *)
(***************************************************************************)
EXTENDS Integers, Sequences, FiniteSets, TLC

VARIABLES
    pc,                          \* position inside generate_instagram_ad
    product_data,                \* [title, price]
    primary_image_urls,          \* sequence of reference image URLs
    use_text_overlay,            \* TRUE: CLEAN mode, FALSE: TEXT_BAKED mode
    image_index,                 \* loop index of the reference-image loop
    combined_image_description,  \* sequence of description runs
    color_palette,               \* [set, primary, light, dark, complement, neutral]
    background_style,            \* text (sequence of segments), <<>> when empty
    generation_prompt,           \* prompt of the primary call
    fallback_prompt,             \* prompt rebuilt for the fallback call
    selected_model,
    used_fallback,
    response,                    \* last response received from the backend
    overlay_inputs,              \* payloads handed to add_text_overlay
    calls,                       \* generation calls made to the backend, in order
    result,                      \* value returned to the caller
    ad_concept,                  \* what analyze_product_info handed to /generate-ad
    analysis_error,              \* str(e) of the exception its backend call raised
    http_status,                 \* status of the HTTP response, 0 while none is sent
    args,                        \* arguments of a helper called on its own
    lines,                       \* add_text_overlay's local `lines`
    ret,                         \* value that helper returned
    image_log,                   \* what became of each reference image, in order
    saved_files,                 \* payloads /generate-ad wrote to static/generated
    scraper,                     \* the module global `scraper`: 0 is None
    scraper_objects,             \* the MercadoLibreScraper objects ever created
    requests                     \* the HTTP requests being served by threads

vars == <<pc, product_data, primary_image_urls, use_text_overlay, image_index,
          combined_image_description, color_palette, background_style,
          generation_prompt, fallback_prompt, selected_model, used_fallback,
          response, overlay_inputs, calls, result,
          ad_concept, analysis_error, http_status, args, lines, ret,
          image_log, saved_files, scraper, scraper_objects, requests>>

\* the module globals of lines 1073-1075 and the requests of the server
server == <<scraper, scraper_objects, requests>>

\* the state outside generate_instagram_ad
aux == <<ad_concept, analysis_error, http_status, args, lines, ret,
         image_log, saved_files, scraper, scraper_objects, requests>>

\* what the calls of one request leave behind outside generate_instagram_ad
endpoint == <<ad_concept, analysis_error, http_status, saved_files>>

(***************************************************************************)
(* Bounds of the model.                                                    *)
(***************************************************************************)
MaxImages == 2          \* reference images per request
MaxParts == 2           \* parts of a candidate's content
MaxCandidates == 2      \* candidates of a response
DescChars == 300        \* characters of a non-empty vision description

(***************************************************************************)
(* Model identifiers (process-wide configuration).                         *)
(***************************************************************************)
VISION_MODEL == "gemini-1.5-flash"
IMAGE_GENERATION_MODEL == "gemini-2.0-flash-preview-image-generation"
TEXT_TO_IMAGE_MODEL == "gemini-2.0-flash-preview-image-generation"
FALLBACK_TEXT_TO_IMAGE_MODEL == "gemini-2.0-flash-preview-image-generation"

(***************************************************************************)
(* Texts.                                                                  *)
(***************************************************************************)
Min(a, b) == IF a <= b THEN a ELSE b
\* max that always answers its first argument
Max_First(a, b) == a

Max(a, b) == IF a >= b THEN a ELSE b

UpperLetters ==
    <<"A", "B", "C", "D", "E", "F", "G", "H", "I", "J", "K", "L", "M",
      "N", "O", "P", "Q", "R", "S", "T", "U", "V", "W", "X", "Y", "Z">>
LowerLetters ==
    <<"a", "b", "c", "d", "e", "f", "g", "h", "i", "j", "k", "l", "m",
      "n", "o", "p", "q", "r", "s", "t", "u", "v", "w", "x", "y", "z">>

\* str.lower() on one character
LowerChar(c) ==
    IF \E i \in 1..26 : UpperLetters[i] = c
    THEN LowerLetters[CHOOSE i \in 1..26 : UpperLetters[i] = c]
    ELSE c

Lower(s) == [i \in 1..Len(s) |-> LowerChar(s[i])]

\* Python's `sub in s` on texts
IsSubstring(sub, s) ==
    \E i \in 0..(Len(s) - Len(sub)) :
        \A j \in 1..Len(sub) : s[i + j] = sub[j]

\* a segment carrying the literal text of one template line
Lit(s) == [t |-> <<s>>, n |-> 0]
\* a segment carrying an interpolated text whole
Txt(s) == [t |-> s, n |-> 0]

RECURSIVE Flatten(_)
\* the characters and literal tokens of a prompt, in order
Flatten(segs) ==
    IF segs = <<>> THEN <<>> ELSE Head(segs).t \o Flatten(Tail(segs))

\* the prompt contains the text s verbatim
PromptContains(prompt, s) == IsSubstring(s, Flatten(prompt))

\* the prompt contains the template line s
HasLine(prompt, s) == \E i \in DOMAIN prompt : prompt[i] = Lit(s)

(***************************************************************************)
(* Image descriptions: runs [t, n], n characters of the text labelled t.   *)
(***************************************************************************)
RECURSIVE DescLen(_)
DescLen(d) == IF d = <<>> THEN 0 ELSE Head(d).n + DescLen(Tail(d))

\* d[:k] that keeps the whole of d
Slice_Whole(d, k) == d

RECURSIVE Slice(_, _)
\* d[:k]
Slice(d, k) ==
    IF d = <<>> \/ k <= 0 THEN <<>>
    ELSE IF Head(d).n <= k
         THEN <<Head(d)>> \o Slice(Tail(d), k - Head(d).n)
         ELSE <<[t |-> Head(d).t, n |-> k]>>

\* text returned by the vision model for the image at url; "" when chars = 0
VisionText(url, chars) ==
    IF chars = 0 THEN <<>> ELSE <<[t |-> <<"description of ", url>>, n |-> chars]>>

\* the joiner " Ademas, " of line 716 (9 characters)
Ademas == [t |-> <<" Ademas, ">>, n |-> 9]

\* lines 715-718: append one image's description to the combined one
CombineDescriptions(combined, image_description) ==
    IF combined # <<>>
    THEN combined \o <<Ademas>> \o image_description
    ELSE image_description

(***************************************************************************)
(* Colours: '#rrggbb' as a text of seven characters.                       *)
(***************************************************************************)
HexDigits == <<"0", "1", "2", "3", "4", "5", "6", "7",
               "8", "9", "a", "b", "c", "d", "e", "f">>

HexVal(c) == CHOOSE v \in 0..15 : HexDigits[v + 1] = c

\* line 618: tuple(int(hex_color[i:i+2], 16) for i in (1, 3, 5))
hex_to_rgb(hex_color) ==
    <<16 * HexVal(hex_color[2]) + HexVal(hex_color[3]),
      16 * HexVal(hex_color[4]) + HexVal(hex_color[5]),
      16 * HexVal(hex_color[6]) + HexVal(hex_color[7])>>

\* '{:02x}'.format(c) for c in 0..255
Hex02(c) == <<HexDigits[(c \div 16) + 1], HexDigits[(c % 16) + 1]>>

\* line 621
rgb_to_hex(rgb) == <<"#">> \o Hex02(rgb[1]) \o Hex02(rgb[2]) \o Hex02(rgb[3])

NoPalette ==
    [set |-> FALSE, primary |-> <<>>, light |-> <<>>, dark |-> <<>>,
     complement |-> <<>>, neutral |-> <<>>]

\* lines 640-646: the palette returned when the computation raises
DefaultPalette ==
    [set |-> TRUE,
     primary |-> <<"#", "4", "a", "9", "0", "e", "2">>,
     light |-> <<"#", "8", "7", "c", "e", "e", "b">>,
     dark |-> <<"#", "2", "c", "5", "a", "a", "0">>,
     complement |-> <<"#", "e", "2", "4", "a", "4", "a">>,
     neutral |-> <<"#", "f", "8", "f", "9", "f", "a">>]

\* lines 613-646; dominant_colors[0] raises on an empty list
generate_color_palette(dominant_colors) ==
    IF dominant_colors = <<>> \/ Len(dominant_colors[1]) # 7
    THEN DefaultPalette
    ELSE LET main_color == dominant_colors[1]
             main_rgb == hex_to_rgb(main_color)
         IN [set |-> TRUE,
             primary |-> main_color,
             light |-> rgb_to_hex(<<Min(255, main_rgb[1] + 60),
                                    Min(255, main_rgb[2] + 60),
                                    Min(255, main_rgb[3] + 60)>>),
             dark |-> rgb_to_hex(<<Max(0, main_rgb[1] - 40),
                                   Max(0, main_rgb[2] - 40),
                                   Max(0, main_rgb[3] - 40)>>),
             complement |-> rgb_to_hex(<<255 - main_rgb[1],
                                         255 - main_rgb[2],
                                         255 - main_rgb[3]>>),
             neutral |-> <<"#", "f", "8", "f", "9", "f", "a">>]

\* line 593: colours returned when every pixel is near-white
NearWhiteColors ==
    <<<<"#", "3", "3", "3", "3", "3", "3">>,
      <<"#", "6", "6", "6", "6", "6", "6">>,
      <<"#", "9", "9", "9", "9", "9", "9">>>>

\* line 611: colours returned when the extraction raises
ExtractionErrorColors ==
    <<<<"#", "4", "a", "9", "0", "e", "2">>,
      <<"#", "7", "b", "6", "8", "e", "e">>,
      <<"#", "5", "0", "c", "8", "7", "8">>>>

\* lines 571-611: what extract_dominant_colors can return for a downloaded
\* image: one of the two fixed lists, or the cluster centres of its pixels
DominantColorResults ==
    {NearWhiteColors, ExtractionErrorColors,
     <<rgb_to_hex(<<250, 10, 100>>), rgb_to_hex(<<20, 30, 40>>)>>}

(***************************************************************************)
(* create_background_prompt, lines 648-669.                                *)
(***************************************************************************)
FashionWords ==
    {<<"r", "o", "p", "a">>,
     <<"c", "l", "o", "t", "h", "i", "n", "g">>,
     <<"f", "a", "s", "h", "i", "o", "n">>,
     <<"s", "h", "i", "r", "t">>,
     <<"v", "e", "s", "t", "i", "d", "o">>}
TechWords ==
    {<<"t", "e", "c", "h">>,
     <<"e", "l", "e", "c", "t", "r", "o", "n", "i", "c">>,
     <<"p", "h", "o", "n", "e">>,
     <<"l", "a", "p", "t", "o", "p">>}
HomeWords ==
    {<<"h", "o", "m", "e">>,
     <<"h", "o", "g", "a", "r">>,
     <<"f", "u", "r", "n", "i", "t", "u", "r", "e">>,
     <<"m", "u", "e", "b", "l", "e">>}

AnyWordIn(words, text) == \E w \in words : IsSubstring(w, Lower(text))

background_styles(palette) ==
    << <<Lit("Modern gradient background from "), Txt(palette.light),
         Lit(" to "), Txt(palette.primary),
         Lit(", subtle geometric patterns")>>,
       <<Lit("Professional studio setup with "), Txt(palette.primary),
         Lit(" accent lighting and soft shadows")>>,
       <<Lit("Contemporary minimalist background with "),
         Txt(palette.primary), Lit(" and "), Txt(palette.light),
         Lit(" color blocking")>>,
       <<Lit("Elegant backdrop with "), Txt(palette.primary),
         Lit(" gradient and subtle texture, modern lighting")>>,
       <<Lit("Stylish environment with "), Txt(palette.primary),
         Lit(" and "), Txt(palette.neutral),
         Lit(" color scheme, professional photography")>> >>

\* the electronics keywords looked for before the fashion ones
create_background_prompt_TechFirst(product_title, image_description, palette) ==
    IF AnyWordIn(TechWords, product_title)
    THEN background_styles(palette)[2]
    ELSE IF AnyWordIn(FashionWords, product_title)
    THEN background_styles(palette)[1]
    ELSE IF AnyWordIn(HomeWords, product_title)
    THEN background_styles(palette)[3]
    ELSE background_styles(palette)[4]

create_background_prompt(product_title, image_description, palette) ==
    IF AnyWordIn(FashionWords, product_title)
    THEN background_styles(palette)[1]
    ELSE IF AnyWordIn(TechWords, product_title)
    THEN background_styles(palette)[2]
    ELSE IF AnyWordIn(HomeWords, product_title)
    THEN background_styles(palette)[3]
    ELSE background_styles(palette)[4]

(***************************************************************************)
(* Prompt composition, lines 758-880 and 947-962.                          *)
(***************************************************************************)
\* lines 759-801: use_text_overlay (CLEAN mode)
CleanPrompt(title, description, style) ==
    IF description # <<>> /\ style # <<>>
    THEN <<Lit("Professional studio photograph of "),
          Txt(title),
          Lit(". "),
          Lit("IMPORTANT: The product must match this exact description: ")>>
         \o Slice(description, 350)
         \o <<Lit("Requirements:"),
            Lit("- Same product as described above with identical visual characteristics"),
            Lit("- ")>>
         \o style
         \o <<Lit("- Product prominently featured and well-lit in center"),
            Lit("- Professional studio lighting with soft shadows"),
            Lit("- High quality product photography"),
            Lit("- Square format (1:1 ratio)"),
            Lit("- Instagram-ready composition"),
            Lit("- No text or watermarks on the image"),
            Lit("- Sophisticated and modern aesthetic"),
            Lit("- Clean, professional look suitable for advertising")>>
    ELSE IF description # <<>>
    THEN <<Lit("Professional studio photograph of "),
          Txt(title),
          Lit(". "),
          Lit("IMPORTANT: The product must match this exact description: ")>>
         \o Slice(description, 400)
         \o <<Lit("Requirements:"),
            Lit("- Same product as described above with identical visual characteristics"),
            Lit("- Stylish gradient background with colors matching the product"),
            Lit("- Product prominently featured and well-lit"),
            Lit("- Professional studio lighting"),
            Lit("- High quality product photography"),
            Lit("- Square format (1:1 ratio)"),
            Lit("- No text or watermarks")>>
    ELSE <<Lit("Professional studio photograph of "),
           Txt(title),
           Lit(". "),
           Lit("Modern gradient background with colors that complement the product."),
           Lit("Product prominently featured with professional lighting."),
           Lit("Square format. High quality. Instagram-ready composition."),
           Lit("No text on the image.")>>

\* lines 807-841: the prompt first assigned in TEXT_BAKED mode
TextBakedStyledPrompt(title, price, description, style) ==
    IF description # <<>> /\ style # <<>>
    THEN <<Lit("Create a professional Instagram advertisement image (1080x1080) for "),
          Txt(title),
          Lit("."),
          Lit("Product details: ")>>
         \o Slice(description, 300)
         \o <<Lit("Price: "),
            Txt(price),
            Lit("Requirements:"),
            Lit("- Show the exact product as described above"),
            Lit("- ")>>
         \o style
         \o <<Lit("- Include Spanish advertising text on the image"),
            Lit("- Add the price: "),
            Txt(price),
            Lit("- Include an attractive Spanish call-to-action"),
            Lit("- Use professional Instagram ad design"),
            Lit("- Modern, eye-catching layout"),
            Lit("- High quality and visually appealing"),
            Lit("- Square format (1:1 ratio)"),
            Lit("- All text must be in perfect Spanish")>>
    ELSE <<Lit("Create a professional Instagram advertisement image (1080x1080) for "),
           Txt(title),
           Lit("."),
           Lit("Price: "),
           Txt(price),
           Lit("Requirements:"),
           Lit("- Professional product photography with stylish background"),
           Lit("- Include Spanish advertising text on the image"),
           Lit("- Add the price: "),
           Txt(price),
           Lit("- Include an attractive Spanish call-to-action"),
           Lit("- Use professional Instagram ad design"),
           Lit("- Modern, eye-catching layout"),
           Lit("- High quality and visually appealing"),
           Lit("- Square format (1:1 ratio)"),
           Lit("- All text must be in perfect Spanish")>>

\* the TEXT_BAKED prompt composed like the CLEAN one
TextBakedDesignPrompt_NoPrice(title, price, description, style) ==
    CleanPrompt(title, description, style)

\* lines 845-880: the prompt assigned next, which replaces the first one
TextBakedDesignPrompt(title, price, description, style) ==
    IF description # <<>>
    THEN <<Lit("Create a professional Instagram advertisement image (1080x1080) for "),
          Txt(title),
          Lit("."),
          Lit("Product details: ")>>
         \o Slice(description, 250)
         \o <<Lit("Price: "),
            Txt(price),
            Lit("Design Requirements:"),
            Lit("- Show the exact product as described above"),
            Lit("- Beautiful ")>>
         \o style
         \o <<Lit(" behind the product"),
            Lit("- Include Spanish advertising text on the image"),
            Lit("- Add the price: "),
            Txt(price),
            Lit("- Include an attractive Spanish call-to-action"),
            Lit("- Professional Instagram ad design with modern typography"),
            Lit("- High quality and visually appealing"),
            Lit("- Square format (1:1 ratio)"),
            Lit("- All text must be in perfect Spanish"),
            Lit("- Sophisticated color scheme that complements the product")>>
    ELSE <<Lit("Create a professional Instagram advertisement image (1080x1080) for "),
           Txt(title),
           Lit("."),
           Lit("Price: "),
           Txt(price),
           Lit("Design Requirements:"),
           Lit("- Professional product photography"),
           Lit("- Beautiful ")>>
         \o style
         \o <<Lit(" behind the product"),
            Lit("- Include Spanish advertising text on the image"),
            Lit("- Add the price: "),
            Txt(price),
            Lit("- Include an attractive Spanish call-to-action"),
            Lit("- Professional Instagram ad design with modern typography"),
            Lit("- High quality and visually appealing"),
            Lit("- Square format (1:1 ratio)"),
            Lit("- All text must be in perfect Spanish"),
            Lit("- Sophisticated and modern aesthetic")>>

\* lines 758-880: generation_prompt as it stands at line 881
ComposePrompt(product, description, style, text_overlay) ==
    IF text_overlay
    THEN CleanPrompt(product.title, description, style)
    ELSE LET first == TextBakedStyledPrompt(product.title, product.price,
                                            description, style)
             second == TextBakedDesignPrompt(product.title, product.price,
                                             description, style)
         IN  second

\* the prompt of the primary call sent again
FallbackPrompt_Reused(product, description, style) ==
    ComposePrompt(product, description, style, FALSE)

\* lines 947-962: the prompt rebuilt for the fallback call
FallbackPrompt(product, description, style) ==
    <<Lit("Professional studio photograph of "),
      Txt(product.title),
      Lit(".")>>
    \o (IF description # <<>>
        THEN <<Lit("Product details: ")>> \o Slice(description, 300)
        ELSE <<>>)
    \o <<Lit("Requirements:"),
       Lit("- Show the exact product as described"),
       Lit("- ")>>
    \o (IF style # <<>> THEN style
        ELSE <<Lit("Professional gradient background")>>)
    \o <<Lit("- Product prominently featured and well-lit"),
       Lit("- Professional studio lighting with soft shadows"),
       Lit("- High quality product photography"),
       Lit("- Square format (1:1 ratio)"),
       Lit("- Instagram-ready composition"),
       Lit("- Clean, professional look suitable for advertising"),
       Lit("- No text or watermarks on the image (text will be added separately)")>>

\* the vision model selected whatever the mode
SelectModel_Vision(text_overlay) == VISION_MODEL

\* lines 882-890
SelectModel(text_overlay) ==
    IF text_overlay THEN IMAGE_GENERATION_MODEL ELSE TEXT_TO_IMAGE_MODEL

(***************************************************************************)
(* Backend responses: candidates -> content -> parts.                      *)
(***************************************************************************)
\* image bytes: valid = PIL can open them, drawn = texts composited on them
Bytes(valid, id) ==
    [valid |-> valid, id |-> id, drawn |-> <<>>, font |-> "none"]

\* a part: text = it carries non-empty text; inline = its inline_data
\* ("absent", "empty" data, raw "bytes", or a base64 "str", well-formed or not)
Part(text, inline, wellformed, image) ==
    [text |-> text, inline |-> inline, wellformed |-> wellformed, image |-> image]

\* the parts the backend may put at position i of a content
PartsAt(i) ==
    {Part(TRUE, "absent", TRUE, Bytes(FALSE, 0)),
     Part(FALSE, "absent", TRUE, Bytes(FALSE, 0)),
     Part(FALSE, "empty", TRUE, Bytes(FALSE, 0)),
     Part(FALSE, "bytes", TRUE, Bytes(TRUE, i)),
     Part(FALSE, "bytes", TRUE, Bytes(FALSE, i)),
     Part(FALSE, "str", TRUE, Bytes(TRUE, i)),
     Part(FALSE, "str", FALSE, Bytes(TRUE, i))}

PartSeqs ==
    UNION {{ps \in [1..n -> UNION {PartsAt(i) : i \in 1..n}] :
               \A i \in 1..n : ps[i] \in PartsAt(i)} : n \in 0..MaxParts}

\* a candidate: content absent, or content with its parts
Candidate(has_content, parts) == [has_content |-> has_content, parts |-> parts]

FirstCandidates ==
    {Candidate(FALSE, <<>>)} \cup {Candidate(TRUE, ps) : ps \in PartSeqs}

\* a further candidate, carrying an image of its own
LaterCandidate(k) ==
    Candidate(TRUE, <<Part(FALSE, "bytes", TRUE, Bytes(TRUE, 100 + k))>>)

\* first candidates of the responses that carry several candidates
LeadingCandidates ==
    {Candidate(FALSE, <<>>), Candidate(TRUE, <<>>),
     Candidate(TRUE, <<Part(TRUE, "absent", TRUE, Bytes(FALSE, 0))>>),
     Candidate(TRUE, <<Part(FALSE, "bytes", TRUE, Bytes(TRUE, 1))>>)}

Response(truthy, candidates) == [truthy |-> truthy, candidates |-> candidates]

NoResponse == Response(FALSE, <<>>)

Responses ==
    {NoResponse, Response(TRUE, <<>>)}
    \cup {Response(TRUE, <<c>>) : c \in FirstCandidates}
    \cup UNION {{Response(TRUE, [k \in 1..n |->
                                    IF k = 1 THEN c ELSE LaterCandidate(k)]) :
                    c \in LeadingCandidates} : n \in 2..MaxCandidates}

\* str(e) of the exceptions a generate_content call raises: the backend's
\* overload answer, and a rejection of the request
GenerationErrors ==
    {<<"5", "0", "3", " ", "U", "N", "A", "V", "A", "I", "L", "A", "B", "L", "E">>,
     <<"4", "0", "0", " ", "I", "N", "V", "A", "L", "I", "D">>}

\* what one generate_content call can do: raise, or return a response
BackendOutcomes ==
    {[raised |-> TRUE, resp |-> NoResponse, error |-> e] : e \in GenerationErrors}
    \cup {[raised |-> FALSE, resp |-> r, error |-> <<>>] : r \in Responses}

(***************************************************************************)
(* add_text_overlay, lines 309-434.                                        *)
(***************************************************************************)
Subtitle == <<"Diseno unico y funcional">>
Cta == <<"COMPRA AHORA!">>

\* lines 335-337
OverlayTitle(title) ==
    IF Len(title) > 60 THEN SubSeq(title, 1, 57) \o <<".", ".", ".">> ELSE title

\* pixels a character advances the pen in the title font: DejaVu Sans Bold
\* at size 52 when the font files load, PIL's built-in bitmap font otherwise
CharAdvance(c, font) ==
    IF font = "default" THEN 6
    ELSE IF c \in {"W", "M", "m", "w"} THEN 54
    ELSE IF c \in {"i", "l", ".", " "} THEN 18
    ELSE 36

RECURSIVE TextWidth(_, _)
\* lines 378-379: bbox[2] - bbox[0] of draw.textbbox((0, 0), text, font)
TextWidth(text, font) ==
    IF text = <<>> THEN 0
    ELSE CharAdvance(Head(text), font) + TextWidth(Tail(text), font)

RECURSIVE SplitFrom(_, _)
\* str.split(): the words of text, word being the one read so far
SplitFrom(text, word) ==
    IF text = <<>> THEN (IF word = <<>> THEN <<>> ELSE <<word>>)
    ELSE IF Head(text) = " "
    THEN (IF word = <<>> THEN <<>> ELSE <<word>>) \o SplitFrom(Tail(text), <<>>)
    ELSE SplitFrom(Tail(text), Append(word, Head(text)))

Split(text) == SplitFrom(text, <<>>)

\* the word glued to the line without a space
TestLine_Glued(current_line, word) == current_line \o word

\* line 377: f"{current_line} {word}".strip()
TestLine(current_line, word) ==
    IF current_line = <<>> THEN word ELSE current_line \o <<" ">> \o word

RECURSIVE WrapFrom(_, _, _, _)
\* lines 376-387: the loop over the words left, and the append after it
WrapFrom(words, current_line, width, font) ==
    IF words = <<>>
    THEN (IF current_line # <<>> THEN <<current_line>> ELSE <<>>)
    ELSE LET word == Head(words)
             test_line == TestLine(current_line, word)
         IN  IF TextWidth(test_line, font) <= width - 40
             THEN WrapFrom(Tail(words), test_line, width, font)
             ELSE (IF current_line # <<>> THEN <<current_line>> ELSE <<>>)
                  \o WrapFrom(Tail(words), word, width, font)

\* lines 372-387: the lines the title is wrapped into
WrapTitle(title, width, font) == WrapFrom(Split(title), <<>>, width, font)

\* the steps of add_text_overlay that can fail, in the order they run
OverlaySites == <<"open", "fonts", "title", "price", "draw", "save">>

\* a font failure handled like every other failure
OverlayHandler_FontsAbort(site) == "return_input"

\* the except clause that catches a failure of a step: line 327 switches to
\* ImageFont.load_default(), line 429 returns image_data
OverlayHandler(site) ==
    IF site = "fonts" THEN "default_font" ELSE "return_input"

\* the steps that fail: env.fails are the failures of the environment
\* (font files, drawing, JPEG encoding); the others follow from the arguments
OverlayFailures(image_data, product, env) ==
    env.fails
    \cup (IF image_data.valid THEN {} ELSE {"open"})
    \cup (IF "title" \in DOMAIN product THEN {} ELSE {"title"})
    \cup (IF "price" \in DOMAIN product THEN {} ELSE {"price"})

\* the first failing step that ends the render, 0 when the render completes
AbortingStep(image_data, product, env) ==
    LET failing == OverlayFailures(image_data, product, env)
        aborting == {i \in DOMAIN OverlaySites :
                        /\ OverlaySites[i] \in failing
                        /\ OverlayHandler(OverlaySites[i]) # "default_font"}
    IN  IF aborting = {} THEN 0
        ELSE CHOOSE i \in aborting : \A k \in aborting : i <= k

\* lines 321-332
TitleFont(env) == IF "fonts" \in env.fails THEN "default" ELSE "DejaVuSans-Bold"

\* an exception leaves add_text_overlay
OverlayRaises(image_data, product, env) ==
    LET step == AbortingStep(image_data, product, env)
    IN  step # 0 /\ OverlayHandler(OverlaySites[step]) = "caller"

\* lines 372-387: the local `lines`, <<>> when the loop is not reached
OverlayLines(image_data, product, env) ==
    IF OverlayFailures(image_data, product, env)
          \cap {"open", "title", "price"} # {}
    THEN <<>>
    ELSE WrapTitle(OverlayTitle(product.title), env.width, TitleFont(env))

\* every line of the wrap is drawn
DrawnTitleLines_All(wrapped) == wrapped

\* lines 389-393: `for line in lines[:2]`
DrawnTitleLines(wrapped) == SubSeq(wrapped, 1, Min(2, Len(wrapped)))

\* lines 309-434 on a canvas env.width pixels wide
RenderOverlay(image_data, product, env) ==
    IF AbortingStep(image_data, product, env) # 0
    THEN image_data
    ELSE LET wrapped == OverlayLines(image_data, product, env)
         IN  [valid |-> TRUE, id |-> image_data.id,
              drawn |-> DrawnTitleLines(wrapped)
                        \o <<Subtitle, <<"$">> \o product.price, Cta>>,
              font |-> TitleFont(env)]

\* the images the backend returns are 1024 pixels wide, the fonts installed
BackendCanvas == [width |-> 1024, fails |-> {}]

\* add_text_overlay as generate_instagram_ad calls it (lines 1040, 1046, 1052)
add_text_overlay(image_data, product) ==
    RenderOverlay(image_data, product, BackendCanvas)

(***************************************************************************)
(* Response validation and part scanning, lines 981-1064.                  *)
(***************************************************************************)
\* lines 983-1007: `return None`
NoneResult == [ret |-> "None", image |-> <<>>, flag |-> FALSE]
\* line 1064: `return (None, used_fallback)`
NoImageResult(flag) == [ret |-> "tuple", image |-> <<>>, flag |-> flag]
\* lines 1042, 1048, 1054: `return (bytes, used_fallback)`
ImageResult(image, flag) == [ret |-> "tuple", image |-> <<image>>, flag |-> flag]
\* line 1071: `return (None, False)`
ExceptionResult == [ret |-> "tuple", image |-> <<>>, flag |-> FALSE]
\* an exception that leaves generate_instagram_ad
Escaped == [ret |-> "exception", image |-> <<>>, flag |-> FALSE]
Pending == [ret |-> "pending", image |-> <<>>, flag |-> FALSE]

\* a payload that fails to decode is not skipped
PartSkipped_DecodeErrorKept(part) ==
    \/ part.text
    \/ part.inline \in {"absent", "empty"}

\* lines 1014-1035: the part is skipped (text, no data, or a decode error)
PartSkipped(part) ==
    \/ part.text
    \/ part.inline \in {"absent", "empty"}
    \/ part.inline = "str" /\ ~part.wellformed

\* lines 1028-1033: base64.b64decode of a str, raw bytes as they are
DecodePart(part) == part.image

\* lines 1011-1062: index of the part the loop returns from, 0 when none
FirstImagePart(parts) ==
    IF \A i \in DOMAIN parts : PartSkipped(parts[i])
    THEN 0
    ELSE CHOOSE i \in DOMAIN parts :
            /\ ~PartSkipped(parts[i])
            /\ \A j \in 1..(i - 1) : PartSkipped(parts[j])

\* the overlay applied only when the caller asked for it
NeedsOverlay_OnlyWhenRequested(text_overlay, fallback_used) == text_overlay

\* lines 1038-1054: the decoded image goes through add_text_overlay
NeedsOverlay(text_overlay, fallback_used) == text_overlay \/ fallback_used

\* the last candidate inspected
InspectedCandidate_Last(resp) == resp.candidates[Len(resp.candidates)]

\* line 996: `candidate = response.candidates[0]`
InspectedCandidate(resp) == resp.candidates[1]

\* lines 981-1064: the value returned for a response
ProcessResponse(resp, product, text_overlay, fallback_used) ==
    IF ~resp.truthy THEN NoneResult
    ELSE IF resp.candidates = <<>> THEN NoneResult
    ELSE LET candidate == InspectedCandidate(resp) IN
         IF ~candidate.has_content THEN NoneResult
         ELSE IF candidate.parts = <<>> THEN NoneResult
         ELSE LET i == FirstImagePart(candidate.parts) IN
              IF i = 0 THEN NoImageResult(fallback_used)
              ELSE LET image_data == DecodePart(candidate.parts[i]) IN
                   IF NeedsOverlay(text_overlay, fallback_used)
                   THEN ImageResult(add_text_overlay(image_data, product),
                                    fallback_used)
                   ELSE ImageResult(image_data, fallback_used)

\* the payloads add_text_overlay is called with while processing resp
OverlayInputs(resp, text_overlay, fallback_used) ==
    IF /\ resp.truthy
       /\ resp.candidates # <<>>
       /\ InspectedCandidate(resp).has_content
       /\ FirstImagePart(InspectedCandidate(resp).parts) # 0
       /\ NeedsOverlay(text_overlay, fallback_used)
    THEN <<DecodePart(InspectedCandidate(resp).parts[
                FirstImagePart(InspectedCandidate(resp).parts)])>>
    ELSE <<>>

(***************************************************************************)
(* Requests.                                                               *)
(***************************************************************************)
Products ==
    {[title |-> <<"S", "i", "l", "l", "a", " ", "P", "r", "o">>,
      price |-> <<"4", "5", ".", "9", "9", "9">>],
     [title |-> <<"L", "a", "p", "t", "o", "p", " ", "X">>,
      price |-> <<"1", "2", "0", "0">>]}

UrlNames == <<"url1", "url2", "url3", "url4">>

Urls(n) == [i \in 1..n |-> UrlNames[i]]

\* what the loop body of lines 686-725 can meet for one reference image
ImageOutcomes ==
    {"download_error", "download_refused", "not_an_image", "vision_raised",
     "empty_text", "described"}

\* the vision call left outside its try block
ExceptHandler_VisionUncaught(site) ==
    CASE site = "download_error" -> "download_image"
      [] site = "not_an_image" -> "load_image_as_part"
      [] site = "clean_config" -> "config_error"
      [] site = "text_config" -> "text_to_image_error"
      [] site = "clean_bare" -> "outer"
      [] site = "fallback_config" -> "outer"
      [] OTHER -> "caller"

\* download_image left without its try block
ExceptHandler_DownloadUncaught(site) ==
    CASE site = "not_an_image" -> "load_image_as_part"
      [] site = "vision_raised" -> "image_loop"
      [] site = "clean_config" -> "config_error"
      [] site = "text_config" -> "text_to_image_error"
      [] site = "clean_bare" -> "outer"
      [] site = "fallback_config" -> "outer"
      [] OTHER -> "caller"

\* the except clause that catches an exception raised at a site of
\* generate_instagram_ad; "caller" when no clause encloses the site
ExceptHandler(site) ==
    CASE site = "download_error" -> "download_image"            \* line 283
      [] site = "not_an_image" -> "load_image_as_part"          \* line 305
      [] site = "vision_raised" -> "image_loop"                 \* line 720
      [] site = "clean_config" -> "config_error"                \* line 916
      [] site = "text_config" -> "text_to_image_error"          \* line 939
      [] site = "clean_bare" -> "outer"                         \* line 1066
      [] site = "fallback_config" -> "outer"                    \* line 1066
      [] OTHER -> "caller"

\* the outcome is an exception that no except clause catches
Uncaught(outcome) ==
    /\ outcome \in {"download_error", "not_an_image", "vision_raised",
                    "clean_config", "text_config", "clean_bare",
                    "fallback_config"}
    /\ ExceptHandler(outcome) = "caller"

\* explicit sampling configurations, lines 908-913 and 931-936 / 970-975
CleanConfig == "modalities=IMAGE,TEXT temperature=0.1 max_output_tokens=2048 candidate_count=1"
TextConfig == "modalities=IMAGE,TEXT temperature=0.3 max_output_tokens=2048 candidate_count=1"
NoConfig == "none"

Call(site, model, prompt, config, out) ==
    [site |-> site, model |-> model, prompt |-> prompt, config |-> config,
     raised |-> out.raised, error |-> out.error]

(***************************************************************************)
(* generate_instagram_ad, lines 671-1071.                                  *)
(***************************************************************************)
\* no helper is called on its own, no HTTP request is being served
NoCall == "none"

\* lines 1073-1075 at start-up: `scraper = None`, no request being served
ServerIdle ==
    /\ scraper = 0
    /\ scraper_objects = <<>>
    /\ requests = <<>>

AuxIdle ==
    /\ ad_concept = <<>>
    /\ analysis_error = <<>>
    /\ http_status = 0
    /\ args = NoCall
    /\ lines = <<>>
    /\ ret = NoCall
    /\ image_log = <<>>
    /\ saved_files = <<>>
    /\ ServerIdle

\* the state of generate_instagram_ad before it is called for product
PipelineIdle(product) ==
    /\ product_data = product
    /\ primary_image_urls = <<>>
    /\ use_text_overlay = TRUE
    /\ image_index = 1
    /\ combined_image_description = <<>>
    /\ color_palette = NoPalette
    /\ background_style = <<>>
    /\ generation_prompt = <<>>
    /\ fallback_prompt = <<>>
    /\ selected_model = ""
    /\ used_fallback = FALSE
    /\ response = NoResponse
    /\ overlay_inputs = <<>>
    /\ calls = <<>>
    /\ result = Pending

Init ==
    /\ pc = "idle"
    /\ \E product \in Products : PipelineIdle(product)
    /\ AuxIdle

\* lines 671-681: the call, with its arguments
Enter ==
    /\ pc = "idle"
    /\ \E n \in 0..MaxImages, text_overlay \in BOOLEAN :
          /\ primary_image_urls' = Urls(n)
          /\ use_text_overlay' = text_overlay
    /\ image_index' = 1
    /\ combined_image_description' = <<>>
    /\ pc' = "images"
    /\ UNCHANGED <<product_data, color_palette, background_style,
                   generation_prompt, fallback_prompt, selected_model,
                   used_fallback, response, overlay_inputs, calls, result>>
    /\ UNCHANGED aux

\* lines 688-725: the description after one image of the loop
DescriptionAfter(combined, url, outcome) ==
    IF outcome = "described"
    THEN CombineDescriptions(combined, VisionText(url, DescChars))
    ELSE IF outcome = "empty_text"
    THEN CombineDescriptions(combined, VisionText(url, 0))
    ELSE combined

\* an exception propagates out of generate_instagram_ad
Escape ==
    /\ result' = Escaped
    /\ pc' = "done"

\* lines 686-725: one iteration of the reference-image loop, meeting outcome
AnalyzeImageWith(outcome) ==
    /\ pc = "images"
    /\ image_index <= Len(primary_image_urls)
    /\ IF Uncaught(outcome)
       THEN /\ Escape
            /\ UNCHANGED <<combined_image_description, image_index>>
       ELSE /\ combined_image_description' =
                  DescriptionAfter(combined_image_description,
                                   primary_image_urls[image_index], outcome)
            /\ image_index' = image_index + 1
            /\ UNCHANGED <<pc, result>>
    /\ UNCHANGED <<product_data, primary_image_urls, use_text_overlay,
                   color_palette, background_style, generation_prompt,
                   fallback_prompt, selected_model, used_fallback, response,
                   overlay_inputs, calls>>

AnalyzeImage ==
    /\ \E outcome \in ImageOutcomes : AnalyzeImageWith(outcome)
    /\ UNCHANGED aux

\* lines 728-746: the palette, from the second download of the first image
PaletteFor(urls, downloaded, dominant_colors) ==
    IF urls # <<>> /\ downloaded
    THEN generate_color_palette(dominant_colors)
    ELSE NoPalette

\* lines 749-756
StyleFor(product, description, palette) ==
    IF palette.set
    THEN create_background_prompt(product.title, description, palette)
    ELSE <<>>

\* lines 727-896: palette, background style, prompt and model, when the
\* second download of the first image succeeds or not
PrepareGenerationWith(downloaded, dominant_colors) ==
    /\ pc = "images"
    /\ image_index > Len(primary_image_urls)
    /\ LET palette == PaletteFor(primary_image_urls, downloaded,
                                 dominant_colors)
           style == StyleFor(product_data, combined_image_description,
                             palette)
       IN  /\ color_palette' = palette
           /\ background_style' = style
           /\ generation_prompt' =
                 ComposePrompt(product_data, combined_image_description,
                               style, use_text_overlay)
    /\ selected_model' = SelectModel(use_text_overlay)
    /\ used_fallback' = FALSE
    /\ pc' = "primary"
    /\ UNCHANGED <<product_data, primary_image_urls, use_text_overlay,
                   image_index, combined_image_description, fallback_prompt,
                   response, overlay_inputs, calls, result>>

PrepareGeneration ==
    /\ \E downloaded \in BOOLEAN, dominant_colors \in DominantColorResults :
          PrepareGenerationWith(downloaded, dominant_colors)
    /\ UNCHANGED aux

\* lines 979-1064: the call returned resp; the request ends with its result
Return(resp) ==
    /\ response' = resp
    /\ result' = ProcessResponse(resp, product_data, use_text_overlay,
                                 used_fallback)
    /\ overlay_inputs' = OverlayInputs(resp, use_text_overlay, used_fallback)
    /\ pc' = "done"

\* lines 1066-1071: the outer handler
Fail ==
    /\ result' = ExceptionResult
    /\ pc' = "done"
    /\ UNCHANGED <<response, overlay_inputs>>

\* a raise of the bare request answered by a request to the fallback model
Raised_TryFallback(site) ==
    IF site = "clean_bare"
    THEN pc' = "fallback" /\ UNCHANGED <<result, response, overlay_inputs>>
    ELSE Fail

\* an exception raised at a site inside the outer try block only
Raised(site) ==
    IF Uncaught(site)
    THEN Escape /\ UNCHANGED <<response, overlay_inputs>>
    ELSE Fail

\* every mode falls back to the fallback model
AfterPrimaryRaised_AlwaysFallback(text_overlay) == "fallback"

\* every mode retries the bare request
AfterPrimaryRaised_AlwaysBare(text_overlay) == "retry_bare"

\* lines 916-919 and 939-941: where a raise of the configured primary call leads
AfterPrimaryRaised(text_overlay) ==
    IF text_overlay THEN "retry_bare" ELSE "fallback"

\* the flag is not set when the fallback is taken
FallbackFlag_NotSet == FALSE

\* line 943
FallbackFlag == TRUE

\* lines 902 and 924: the call site of the first request
PrimarySite(text_overlay) ==
    IF text_overlay THEN "clean_config" ELSE "text_config"

\* lines 908-913 and 931-936: the configuration of the first request
PrimaryConfig(text_overlay) ==
    IF text_overlay THEN CleanConfig ELSE TextConfig

\* the fallback request sent bare
FallbackConfig_Bare == NoConfig

\* lines 970-975: the configuration of the fallback request
FallbackConfig == TextConfig

\* lines 902-915 and 926-938: the first call, carrying the configuration
PrimaryCall ==
    /\ pc = "primary"
    /\ \E out \in BackendOutcomes :
          /\ calls' = Append(calls,
                Call(PrimarySite(use_text_overlay), selected_model,
                     generation_prompt, PrimaryConfig(use_text_overlay),
                     out))
          /\ IF ~out.raised
             THEN /\ UNCHANGED <<used_fallback, fallback_prompt>>
                  /\ Return(out.resp)
             ELSE IF Uncaught(PrimarySite(use_text_overlay))
             THEN /\ Escape
                  /\ UNCHANGED <<used_fallback, fallback_prompt, response,
                                 overlay_inputs>>
             ELSE IF AfterPrimaryRaised(use_text_overlay) = "retry_bare"
             THEN /\ pc' = "retry_bare"
                  /\ UNCHANGED <<used_fallback, fallback_prompt, response,
                                 overlay_inputs, result>>
             ELSE /\ used_fallback' = FallbackFlag
                  /\ fallback_prompt' =
                        FallbackPrompt(product_data, combined_image_description,
                                       background_style)
                  /\ pc' = "fallback"
                  /\ UNCHANGED <<response, overlay_inputs, result>>
    /\ UNCHANGED <<product_data, primary_image_urls, use_text_overlay,
                   image_index, combined_image_description, color_palette,
                   background_style, generation_prompt, selected_model>>
    /\ UNCHANGED aux

\* lines 916-923: the bare request of CLEAN mode
BareRetry ==
    /\ pc = "retry_bare"
    /\ \E out \in BackendOutcomes :
          /\ calls' = Append(calls,
                Call("clean_bare", selected_model, generation_prompt, NoConfig,
                     out))
          /\ IF out.raised THEN Raised("clean_bare") ELSE Return(out.resp)
    /\ UNCHANGED <<product_data, primary_image_urls, use_text_overlay,
                   image_index, combined_image_description, color_palette,
                   background_style, generation_prompt, fallback_prompt,
                   selected_model, used_fallback>>
    /\ UNCHANGED aux

\* lines 964-977: the request to the fallback model
FallbackCall ==
    /\ pc = "fallback"
    /\ \E out \in BackendOutcomes :
          /\ calls' = Append(calls,
                Call("fallback_config", FALLBACK_TEXT_TO_IMAGE_MODEL,
                     fallback_prompt, FallbackConfig, out))
          /\ IF out.raised THEN Raised("fallback_config") ELSE Return(out.resp)
    /\ UNCHANGED <<product_data, primary_image_urls, use_text_overlay,
                   image_index, combined_image_description, color_palette,
                   background_style, generation_prompt, fallback_prompt,
                   selected_model, used_fallback>>
    /\ UNCHANGED aux

Next ==
    \/ Enter
    \/ AnalyzeImage
    \/ PrepareGeneration
    \/ PrimaryCall
    \/ BareRetry
    \/ FallbackCall

Spec == Init /\ [][Next]_vars

\* generate_instagram_ad is straight-line code run by one thread: each of
\* its steps is taken once it is reached
FairSpec == Spec /\ WF_vars(Next)

(***************************************************************************)
(* generate_instagram_ad with a record of what became of every download.   *)
(***************************************************************************)
\* one entry of the record: the image at url met outcome at a stage
Logged(url, stage, outcome) ==
    [url |-> url, stage |-> stage, outcome |-> outcome]

\* lines 686-725, with the outcome of the iteration recorded
LoggedAnalyzeImage ==
    /\ \E outcome \in ImageOutcomes :
          /\ AnalyzeImageWith(outcome)
          /\ image_log' =
                Append(image_log,
                       Logged(primary_image_urls[image_index], "describe",
                              outcome))
    /\ UNCHANGED <<ad_concept, analysis_error, http_status, args, lines, ret,
                   saved_files, server>>

\* lines 727-896, with the outcome of the download of line 733 recorded
LoggedPrepareGeneration ==
    /\ \E downloaded \in BOOLEAN, dominant_colors \in DominantColorResults :
          /\ PrepareGenerationWith(downloaded, dominant_colors)
          /\ image_log' =
                IF primary_image_urls = <<>> THEN image_log
                ELSE Append(image_log,
                            Logged(primary_image_urls[1], "colors",
                                   IF downloaded THEN "downloaded"
                                   ELSE "download_refused"))
    /\ UNCHANGED <<ad_concept, analysis_error, http_status, args, lines, ret,
                   saved_files, server>>

NextImages ==
    \/ Enter
    \/ LoggedAnalyzeImage
    \/ LoggedPrepareGeneration
    \/ PrimaryCall
    \/ BareRetry
    \/ FallbackCall

SpecImages == Init /\ [][NextImages]_vars

(***************************************************************************)
(* analyze_product_info, lines 456-511, and /generate-ad, lines 1139-1230. *)
(***************************************************************************)
\* str(e) of the exceptions the analysis call raises
AnalysisErrors ==
    {<<"5", "0", "3", " ", "S", "e", "r", "v", "i", "c", "e">>,
     <<"M", "o", "d", "e", "l", " ", "O", "v", "e", "r", "l", "o", "a", "d", "e", "d">>,
     <<"U", "N", "A", "V", "A", "I", "L", "A", "B", "L", "E">>,
     <<"4", "0", "0", " ", "I", "N", "V", "A", "L", "I", "D">>}

\* the text of a concept the backend returned
ConceptText == <<"Concepto publicitario">>

AnalysisOutcomes ==
    {[raised |-> TRUE, text |-> <<>>, error |-> e] : e \in AnalysisErrors}
    \cup {[raised |-> FALSE, text |-> ConceptText, error |-> <<>>]}

\* lines 508-509: the markers looked for in str(e).lower()
OverloadMarkers ==
    {<<"5", "0", "3">>,
     <<"o", "v", "e", "r", "l", "o", "a", "d">>,
     <<"u", "n", "a", "v", "a", "i", "l", "a", "b", "l", "e">>}

\* line 509
IsOverloadError(err) ==
    LET err_str == Lower(err)
    IN  \E marker \in OverloadMarkers : IsSubstring(marker, err_str)

MODEL_OVERLOADED_ERROR == <<"MODEL_OVERLOADED_ERROR">>
ErrorCreatingAdConcept == <<"Error creating ad concept">>

\* lines 489-511: what analyze_product_info returns for an outcome of its call
analyze_product_info(outcome) ==
    IF ~outcome.raised THEN outcome.text
    ELSE IF IsOverloadError(outcome.error) THEN MODEL_OVERLOADED_ERROR
    ELSE ErrorCreatingAdConcept

\* only the overload sentinel ends the request
ConceptStatus_ErrorIgnored(concept) ==
    IF concept = MODEL_OVERLOADED_ERROR THEN 503 ELSE 0

\* lines 1168-1173: the status the request ends with for a sentinel, 0 when
\* the concept is accepted and the request goes on
ConceptStatus(concept) ==
    IF concept = MODEL_OVERLOADED_ERROR THEN 503
    ELSE IF IsSubstring(ErrorCreatingAdConcept, concept) THEN 500
    ELSE 0

\* `not product_data`: the body carries no product (None or {})
NoProduct == [title |-> <<>>, price |-> <<>>]

InitGenerateAd ==
    /\ pc = "request"
    /\ \E product \in Products \cup {NoProduct} : PipelineIdle(product)
    /\ AuxIdle

\* lines 1143-1178: the request is read and the ad concept asked for
AnalyzeProduct ==
    /\ pc = "request"
    /\ IF product_data = NoProduct
       THEN /\ http_status' = 400
            /\ pc' = "responded"
            /\ UNCHANGED <<ad_concept, analysis_error>>
       ELSE \E outcome \in AnalysisOutcomes :
               /\ ad_concept' = analyze_product_info(outcome)
               /\ analysis_error' = outcome.error
               /\ http_status' = ConceptStatus(ad_concept')
               /\ pc' = IF ConceptStatus(ad_concept') = 0 THEN "idle"
                        ELSE "responded"
    /\ UNCHANGED <<product_data, primary_image_urls, use_text_overlay,
                   image_index, combined_image_description, color_palette,
                   background_style, generation_prompt, fallback_prompt,
                   selected_model, used_fallback, response, overlay_inputs,
                   calls, result, args, lines, ret, image_log, saved_files>>
    /\ UNCHANGED server

\* lines 1194-1230: the answer, once generate_instagram_ad has ended
Respond ==
    /\ pc = "done"
    /\ IF result.ret = "exception"
       THEN http_status' = 500 /\ UNCHANGED saved_files         \* line 1230
       ELSE IF result.ret = "None" \/ result.image = <<>>
       THEN http_status' = 500 /\ UNCHANGED saved_files         \* line 1196
       ELSE \E written \in BOOLEAN :                            \* line 1211
               /\ http_status' = IF written THEN 200 ELSE 500
               /\ saved_files' = IF written
                                 THEN Append(saved_files, result.image[1])
                                 ELSE saved_files
    /\ pc' = "responded"
    /\ UNCHANGED <<product_data, primary_image_urls, use_text_overlay,
                   image_index, combined_image_description, color_palette,
                   background_style, generation_prompt, fallback_prompt,
                   selected_model, used_fallback, response, overlay_inputs,
                   calls, result, ad_concept, analysis_error, args, lines,
                   ret, image_log>>
    /\ UNCHANGED server

NextGenerateAd ==
    \/ AnalyzeProduct
    \/ Enter
    \/ AnalyzeImage
    \/ PrepareGeneration
    \/ PrimaryCall
    \/ BareRetry
    \/ FallbackCall
    \/ Respond

SpecGenerateAd == InitGenerateAd /\ [][NextGenerateAd]_vars

(***************************************************************************)
(* Helpers called on their own: pc goes from "call" to "returned".         *)
(***************************************************************************)
pipeline ==
    <<product_data, primary_image_urls, use_text_overlay, image_index,
      combined_image_description, color_palette, background_style,
      generation_prompt, fallback_prompt, selected_model, used_fallback,
      response, overlay_inputs, calls, result>>

\* a helper is about to be called with arguments
HelperCalled(arguments) ==
    /\ pc = "call"
    /\ PipelineIdle(NoProduct)
    /\ ad_concept = <<>>
    /\ analysis_error = <<>>
    /\ http_status = 0
    /\ args = arguments
    /\ lines = <<>>
    /\ ret = NoCall
    /\ image_log = <<>>
    /\ saved_files = <<>>
    /\ ServerIdle

(***************************************************************************)
(* add_text_overlay called on its own.                                     *)
(***************************************************************************)
MaxWords == 3           \* words of a title

OverlayWords == {<<"i">>, <<"W", "W">>, <<"W", "i", "W">>}

RECURSIVE Join(_)
\* " ".join(words)
Join(words) ==
    IF words = <<>> THEN <<>>
    ELSE IF Len(words) = 1 THEN Head(words)
    ELSE Head(words) \o <<" ">> \o Join(Tail(words))

\* a title of 64 characters in nine words
LongTitle == [i \in 1..64 |-> IF i % 7 = 0 THEN " " ELSE "a"]

\* a title that is one word of 30 characters
LongWord == [i \in 1..30 |-> "a"]

\* a title with spaces before, between and after its two words
SpacedTitle == <<" ", "W", "W", " ", " ", "i", " ">>

OverlayTitles ==
    {Join(words) :
        words \in UNION {[1..n -> OverlayWords] : n \in 0..MaxWords}}
    \cup {LongTitle, LongWord, SpacedTitle}

OverlayPrice == <<"9", "9">>

\* product_data with and without its 'title' and 'price' keys
OverlayProducts ==
    {[title |-> t, price |-> OverlayPrice] : t \in OverlayTitles}
    \cup {[price |-> OverlayPrice], [title |-> LongTitle]}

\* img.size[0] of the image handed in
CanvasWidths == {100, 160, 1024}

OverlayEnvs ==
    {[width |-> w, fails |-> f] :
        w \in CanvasWidths, f \in SUBSET {"fonts", "draw", "save"}}

InitOverlay ==
    \E image_data \in {Bytes(TRUE, 1), Bytes(FALSE, 1)},
       product \in OverlayProducts, env \in OverlayEnvs :
        HelperCalled([image_data |-> image_data, product |-> product,
                      env |-> env])

\* lines 309-434: one call of add_text_overlay
ApplyOverlay ==
    /\ pc = "call"
    /\ ret' = [raised |-> OverlayRaises(args.image_data, args.product, args.env),
               value |-> RenderOverlay(args.image_data, args.product, args.env)]
    /\ lines' = OverlayLines(args.image_data, args.product, args.env)
    /\ pc' = "returned"
    /\ UNCHANGED <<pipeline, endpoint, args, image_log, server>>

NextOverlay == ApplyOverlay

SpecOverlay == InitOverlay /\ [][NextOverlay]_vars

(***************************************************************************)
(* generate_color_palette called on its own.                               *)
(***************************************************************************)
\* channel values either side of the two clamps
ChannelSamples == {0, 40, 195, 255}

\* colours with one channel anywhere in 0..255, the others at the samples
ColorSamples ==
    {<<c, s, t>> : c \in 0..255, s \in ChannelSamples, t \in ChannelSamples}
    \cup {<<s, c, t>> : c \in 0..255, s \in ChannelSamples, t \in ChannelSamples}
    \cup {<<s, t, c>> : c \in 0..255, s \in ChannelSamples, t \in ChannelSamples}

\* the lists handed to generate_color_palette: a colour formatted as on line
\* 603 followed by a second one, the empty list, and a colour name
PaletteArgs ==
    {[dominant_colors |-> <<rgb_to_hex(rgb), rgb_to_hex(<<1, 2, 3>>)>>,
      sample |-> rgb] : rgb \in ColorSamples}
    \cup {[dominant_colors |-> <<>>, sample |-> <<>>],
          [dominant_colors |-> <<<<"r", "e", "d">>>>, sample |-> <<>>]}

InitPalette == \E a \in PaletteArgs : HelperCalled(a)

\* lines 613-646: one call of generate_color_palette
BuildPalette ==
    /\ pc = "call"
    /\ ret' = generate_color_palette(args.dominant_colors)
    /\ pc' = "returned"
    /\ UNCHANGED <<pipeline, endpoint, args, lines, image_log, server>>

NextPalette == BuildPalette

SpecPalette == InitPalette /\ [][NextPalette]_vars

(***************************************************************************)
(* create_background_prompt called on its own.                             *)
(***************************************************************************)
\* titles, each with the categories whose keywords it contains
TitleSamples ==
    {[title |-> <<>>,
      keywords |-> {}],
     [title |-> <<"V", "e", "s", "t", "i", "d", "o", " ", "r", "o", "j", "o">>,
      keywords |-> {"fashion"}],
     [title |-> <<"S", "H", "I", "R", "T">>,
      keywords |-> {"fashion"}],
     [title |-> <<"L", "a", "p", "t", "o", "p", " ", "G", "a", "m", "e", "r">>,
      keywords |-> {"tech"}],
     [title |-> <<"S", "m", "a", "r", "t", "p", "h", "o", "n", "e">>,
      keywords |-> {"tech"}],
     [title |-> <<"M", "u", "e", "b", "l", "e", " ", "T", "V">>,
      keywords |-> {"home"}],
     [title |-> <<"S", "i", "l", "l", "a">>,
      keywords |-> {}],
     [title |-> <<"h", "o", "m", "e", " ", "p", "h", "o", "n", "e", " ", "p", "h", "o", "n", "e">>,
      keywords |-> {"tech", "home"}],
     [title |-> <<"T", "e", "c", "h", " ", "s", "h", "i", "r", "t">>,
      keywords |-> {"fashion", "tech"}],
     [title |-> <<"l", "a", "p", "t", "o", "p", " ", "l", "a", "p", "t", "o", "p", " ", "r", "o", "p", "a">>,
      keywords |-> {"fashion", "tech"}],
     [title |-> <<"h", "o", "g", "a", "r", " ", "f", "a", "s", "h", "i", "o", "n">>,
      keywords |-> {"fashion", "home"}],
     [title |-> <<"M", "u", "e", "b", "l", "e", " ", "t", "e", "c", "h", " ", "r", "o", "p", "a">>,
      keywords |-> {"fashion", "tech", "home"}]}

\* palettes of a few dominant colours, and the default one
PaletteSamples ==
    {generate_color_palette(<<rgb_to_hex(rgb)>>) :
        rgb \in {<<0, 0, 0>>, <<255, 255, 255>>, <<74, 144, 226>>,
                 <<200, 30, 30>>, <<20, 30, 40>>}}
    \cup {DefaultPalette}

BackgroundArgs ==
    {[product_title |-> s.title, keywords |-> s.keywords,
      image_description |-> d, color_palette |-> p] :
        s \in TitleSamples,
        d \in {<<>>, VisionText("url1", DescChars)},
        p \in PaletteSamples}

InitBackground == \E a \in BackgroundArgs : HelperCalled(a)

\* lines 648-669: one call of create_background_prompt
ChooseBackground ==
    /\ pc = "call"
    /\ ret' = create_background_prompt(args.product_title,
                                       args.image_description,
                                       args.color_palette)
    /\ pc' = "returned"
    /\ UNCHANGED <<pipeline, endpoint, args, lines, image_log, server>>

NextBackground == ChooseBackground

SpecBackground == InitBackground /\ [][NextBackground]_vars

(***************************************************************************)
(* extract_dominant_colors, lines 571-611, called on its own.              *)
(***************************************************************************)
MaxPixels == 3          \* pixels of the resized image

\* every pixel with a channel above 240 is near-white
NearWhite_AnyChannel(pixel) ==
    pixel[1] > 240 \/ pixel[2] > 240 \/ pixel[3] > 240

\* line 589: the pixels the mask removes
NearWhite(pixel) == pixel[1] > 240 /\ pixel[2] > 240 /\ pixel[3] > 240

\* line 590
FilteredPixels(pixels) == SelectSeq(pixels, LAMBDA pixel : ~NearWhite(pixel))

\* as many clusters as the kept pixels have distinct colours
ClusterCount_Distinct(num_colors, filtered_pixels) ==
    Min(num_colors,
        Cardinality({filtered_pixels[i] : i \in DOMAIN filtered_pixels}))

\* line 597: n_clusters
ClusterCount(num_colors, filtered_pixels) ==
    Min(num_colors, Len(filtered_pixels))

RECURSIVE ChannelSum(_, _, _)
ChannelSum(pixels, members, channel) ==
    IF members = {} THEN 0
    ELSE LET i == CHOOSE m \in members : TRUE
         IN  pixels[i][channel] + ChannelSum(pixels, members \ {i}, channel)

\* line 603: the centre of the pixels at the positions members, each channel
\* cut to an integer by int()
Centre(pixels, members) ==
    [channel \in 1..3 |->
        ChannelSum(pixels, members, channel) \div Cardinality(members)]

\* lines 597-598: the centres KMeans(n_clusters = n).fit can end with are n
\* rows, each the mean of the pixels of a non-empty cluster
ClusterCentres(filtered_pixels, n) ==
    LET centres == {Centre(filtered_pixels, members) :
                       members \in SUBSET (DOMAIN filtered_pixels) \ {{}}}
    IN  [1..n -> centres]

\* lines 571-611: the lists extract_dominant_colors can return
extract_dominant_colors(image, num_colors) ==
    IF ~image.valid THEN {ExtractionErrorColors}
    ELSE LET filtered_pixels == FilteredPixels(image.pixels)
         IN  IF Len(filtered_pixels) = 0 THEN {NearWhiteColors}
             ELSE {[i \in DOMAIN centres |-> rgb_to_hex(centres[i])] :
                      centres \in ClusterCentres(filtered_pixels,
                                     ClusterCount(num_colors, filtered_pixels))}

\* pixels either side of the near-white threshold, and a saturated one
PixelSamples ==
    {<<255, 255, 255>>, <<241, 241, 241>>, <<241, 250, 240>>, <<200, 30, 31>>}

ImageSamples ==
    {[valid |-> v, pixels |-> ps] :
        v \in BOOLEAN,
        ps \in UNION {[1..n -> PixelSamples] : n \in 1..MaxPixels}}

\* num_colors: one, two, and the default of line 571
ColorCounts == {1, 2, 5}

InitColors ==
    \E image \in ImageSamples, num_colors \in ColorCounts :
        HelperCalled([image |-> image, num_colors |-> num_colors])

\* one call of extract_dominant_colors: what it returns, with its locals
\* filtered_pixels and n_clusters (0 when KMeans is not run)
ExtractColors ==
    /\ pc = "call"
    /\ \E colors \in extract_dominant_colors(args.image, args.num_colors) :
          LET filtered_pixels ==
                  IF args.image.valid THEN FilteredPixels(args.image.pixels)
                  ELSE <<>>
          IN  ret' = [colors |-> colors,
                      filtered_pixels |-> filtered_pixels,
                      n_clusters |->
                          IF filtered_pixels = <<>> THEN 0
                          ELSE ClusterCount(args.num_colors, filtered_pixels)]
    /\ pc' = "returned"
    /\ UNCHANGED <<pipeline, endpoint, args, lines, image_log, server>>

NextColors == ExtractColors

SpecColors == InitColors /\ [][NextColors]_vars

(***************************************************************************)
(* The server: /scrape, lines 1081-1137, / , lines 1077-1079, and the      *)
(* teardown of lines 1243-1248, run by the threads of app.run for requests *)
(* that are served at the same time.  A MercadoLibreScraper object is an   *)
(* entry of scraper_objects; the global `scraper` is its index, 0 for None.*)
(***************************************************************************)
MaxRequests == 2        \* requests served at the same time

\* data.get('url'): <<>> when the body carries no url or an empty one
NoUrl == <<>>
ScrapeUrls ==
    {NoUrl,
     <<"i", "n", "v", "a", "l", "i", "d", "-", "u", "r", "l">>,
     <<"w", "w", "w", ".", "M", "e", "r", "c", "a", "d", "o", "L", "i", "b",
       "r", "e", ".", "c", "o", "m", "/", "p", "1">>}

Routes == {"/scrape", "/"}

\* any url that is not empty is accepted
ValidScrapeUrl_AnyUrl(url) == url # NoUrl

\* lines 1089-1094
ValidScrapeUrl(url) ==
    /\ url # NoUrl
    /\ IsSubstring(<<"m", "e", "r", "c", "a", "d", "o", "l", "i", "b", "r", "e">>,
                   Lower(url))

\* a request that has just arrived; created and bound are the scraper
\* objects it created and called, 0 when none
Received(route, url) ==
    [route |-> route, url |-> url, at |-> "handler", status |-> 0,
     created |-> 0, bound |-> 0]

RequestSeqs ==
    UNION {[1..n -> {Received(route, url) : route \in Routes, url \in ScrapeUrls}
                    \ {Received("/", url) : url \in ScrapeUrls \ {NoUrl}}] :
           n \in 1..MaxRequests}

\* what the threads of the server leave alone
single == <<pc, pipeline, ad_concept, analysis_error, http_status, args,
            lines, ret, image_log, saved_files>>

InitServer ==
    /\ pc = "serving"
    /\ PipelineIdle(NoProduct)
    /\ ad_concept = <<>>
    /\ analysis_error = <<>>
    /\ http_status = 0
    /\ args = NoCall
    /\ lines = <<>>
    /\ ret = NoCall
    /\ image_log = <<>>
    /\ saved_files = <<>>
    /\ scraper = 0
    /\ scraper_objects = <<>>
    /\ requests \in RequestSeqs

\* the request r goes to `at` with the answer status, 0 while it has none
Goes(r, at, status) ==
    requests' = [requests EXCEPT ![r].at = at, ![r].status = status]

\* lines 1077-1079
Index ==
    \E r \in DOMAIN requests :
        /\ requests[r].route = "/"
        /\ requests[r].at = "handler"
        /\ Goes(r, "teardown", 200)
        /\ UNCHANGED <<single, scraper, scraper_objects>>

\* lines 1085-1096: the url is read and validated
ScrapeValidate ==
    \E r \in DOMAIN requests :
        /\ requests[r].route = "/scrape"
        /\ requests[r].at = "handler"
        /\ IF ValidScrapeUrl(requests[r].url)
           THEN Goes(r, "check_scraper", 0)
           ELSE Goes(r, "teardown", 400)
        /\ UNCHANGED <<single, scraper, scraper_objects>>

\* line 1099: `if not scraper`
ScrapeCheckScraper ==
    \E r \in DOMAIN requests :
        /\ requests[r].at = "check_scraper"
        /\ Goes(r, IF scraper = 0 THEN "create_scraper" ELSE "call", 0)
        /\ UNCHANGED <<single, scraper, scraper_objects>>

\* line 1101: `scraper = MercadoLibreScraper()`, lines 48-53
ScrapeCreateScraper ==
    \E r \in DOMAIN requests :
        /\ requests[r].at = "create_scraper"
        /\ scraper_objects' =
              Append(scraper_objects, [page |-> "None", creator |-> r, closer |-> 0])
        /\ scraper' = Len(scraper_objects) + 1
        /\ requests' = [requests EXCEPT ![r].at = "call",
                                        ![r].created = Len(scraper_objects) + 1]
        /\ UNCHANGED single

\* line 1105 and lines 92-93: the global is read again, the method is called
\* on the object it names and the browser is set up when it has no page
ScrapeCall ==
    \E r \in DOMAIN requests :
        /\ requests[r].at = "call"
        /\ IF scraper = 0
           THEN /\ Goes(r, "teardown", 500)                     \* line 1123
                /\ UNCHANGED scraper_objects
           ELSE \E set_up \in BOOLEAN :
                   IF scraper_objects[scraper].page = "None" /\ ~set_up
                   THEN /\ requests' = [requests EXCEPT ![r].at = "teardown",
                                                        ![r].status = 500,
                                                        ![r].bound = scraper]
                        /\ UNCHANGED scraper_objects            \* line 88
                   ELSE /\ requests' = [requests EXCEPT ![r].at = "navigate",
                                                        ![r].bound = scraper]
                        /\ scraper_objects' =
                              IF scraper_objects[scraper].page = "None"
                              THEN [scraper_objects EXCEPT ![scraper].page = "open"]
                              ELSE scraper_objects
        /\ UNCHANGED <<single, scraper>>

\* lines 95-127 and 1107-1121: the page is loaded and read
ScrapeNavigate ==
    \E r \in DOMAIN requests :
        /\ requests[r].at = "navigate"
        /\ IF scraper_objects[requests[r].bound].page = "closed"
           THEN Goes(r, "teardown", 500)                        \* lines 122-127
           ELSE \E scraped \in BOOLEAN :
                   Goes(r, "teardown", IF scraped THEN 200 ELSE 500)
        /\ UNCHANGED <<single, scraper, scraper_objects>>

\* lines 1243-1248 and 257-270: the teardown of every request
cleanup ==
    \E r \in DOMAIN requests :
        /\ requests[r].at = "teardown"
        /\ requests' = [requests EXCEPT ![r].at = "finished"]
        /\ IF scraper # 0
           THEN /\ scraper_objects' =
                      [scraper_objects EXCEPT
                          ![scraper].page =
                              IF scraper_objects[scraper].page = "None"
                              THEN "None" ELSE "closed",
                          ![scraper].closer = r]
                /\ scraper' = 0
           ELSE UNCHANGED <<scraper, scraper_objects>>
        /\ UNCHANGED single

NextServer ==
    \/ Index
    \/ ScrapeValidate
    \/ ScrapeCheckScraper
    \/ ScrapeCreateScraper
    \/ ScrapeCall
    \/ ScrapeNavigate
    \/ cleanup

SpecServer == InitServer /\ [][NextServer]_vars

(***************************************************************************)
(* The two POST endpoints: one /generate-ad request, or the requests of    *)
(* the server above.                                                       *)
(***************************************************************************)
InitEndpoints == InitGenerateAd \/ InitServer

NextEndpoints ==
    \/ AnalyzeProduct
    \/ Enter
    \/ AnalyzeImage
    \/ PrepareGeneration
    \/ PrimaryCall
    \/ BareRetry
    \/ FallbackCall
    \/ Respond
    \/ Index
    \/ ScrapeValidate
    \/ ScrapeCheckScraper
    \/ ScrapeCreateScraper
    \/ ScrapeCall
    \/ ScrapeNavigate
    \/ cleanup

SpecEndpoints == InitEndpoints /\ [][NextEndpoints]_vars

(***************************************************************************)
(* Properties.                                                             *)
(***************************************************************************)
\* indices of the calls made through the fallback model path
FallbackCalls == {i \in DOMAIN calls : calls[i].site = "fallback_config"}

\* the value a caller sees as the failure outcome: (None, False)
FailureOutcome == [ret |-> "tuple", image |-> <<>>, flag |-> FALSE]

\* the request has ended because its last generation call returned
EndedOnResponse ==
    pc = "done" /\ calls # <<>> /\ ~calls[Len(calls)].raised

\* C1: in TEXT_BAKED mode, once the primary call has raised, used_fallback is
\* true, the fallback model is called exactly once, as the call right after
\* the failed primary call, and no generation call follows it.
C1_FallbackExactlyOnce ==
    (~use_text_overlay /\ calls # <<>> /\ calls[1].raised) =>
        /\ calls[1].site = "text_config"
        /\ calls[1].model = TEXT_TO_IMAGE_MODEL
        /\ used_fallback
        /\ pc \in {"fallback", "done"}
        /\ pc = "fallback" => Len(calls) = 1
        /\ pc = "done" =>
              /\ Len(calls) = 2
              /\ FallbackCalls = {2}
              /\ calls[2].model = FALLBACK_TEXT_TO_IMAGE_MODEL

C1_Witness ==
    /\ pc = "done"
    /\ ~use_text_overlay
    /\ Len(calls) = 2
    /\ calls[1].raised
    /\ calls[2].site = "fallback_config"
    /\ used_fallback

\* C2: in CLEAN mode the fallback branch is never entered: no call goes
\* through the fallback path, no fallback prompt is built, used_fallback
\* stays false, and when both requests of the primary call have raised the
\* request has ended with the failure outcome.
C2_CleanNeverFallsBack ==
    (use_text_overlay /\ pc # "idle") =>
        /\ FallbackCalls = {}
        /\ pc # "fallback"
        /\ fallback_prompt = <<>>
        /\ ~used_fallback
        /\ \A i \in DOMAIN calls : calls[i].site \in {"clean_config", "clean_bare"}
        /\ (Len(calls) = 2 /\ calls[2].raised) =>
              (pc = "done" /\ result = FailureOutcome)

C2_Witness ==
    /\ use_text_overlay
    /\ pc = "done"
    /\ Len(calls) = 2
    /\ calls[1].raised
    /\ calls[2].raised

\* C3: whatever is handed back, the flag the caller receives is true if and
\* only if the fallback model was invoked during the request.
C3_FlagIffFallbackInvoked ==
    (pc = "done" /\ result.ret = "tuple") =>
        (result.flag <=> FallbackCalls # {})

\* C4 as claimed: in both modes a raise of the configured primary request is
\* followed by one bare request with the same model and the same prompt.
C4_BareRetryInBothModes ==
    (Len(calls) >= 2 /\ calls[1].raised) =>
        /\ calls[2].config = NoConfig
        /\ calls[2].model = calls[1].model
        /\ calls[2].prompt = calls[1].prompt

\* C4 amended: in CLEAN mode the primary call is the configured request and,
\* if it raises, exactly one bare request with the same model and prompt,
\* whose response gives the result; in TEXT_BAKED mode the primary call is
\* the configured request alone, and its raise leads at once to the fallback
\* request: no bare request is ever sent in TEXT_BAKED mode.
C4_BareRetryInCleanModeOnly ==
    /\ calls # <<>> =>
          /\ calls[1].config = (IF use_text_overlay THEN CleanConfig ELSE TextConfig)
          /\ calls[1].prompt = generation_prompt
          /\ calls[1].model = selected_model
    /\ Len(calls) <= 2
    /\ Len(calls) = 2 => calls[1].raised
    /\ (use_text_overlay /\ calls # <<>> /\ calls[1].raised) =>
          /\ pc \in {"retry_bare", "done"}
          /\ pc = "done" =>
                /\ Len(calls) = 2
                /\ calls[2].site = "clean_bare"
                /\ calls[2].config = NoConfig
                /\ calls[2].model = calls[1].model
                /\ calls[2].prompt = calls[1].prompt
                /\ ~calls[2].raised =>
                      result = ProcessResponse(response, product_data, TRUE, FALSE)
    /\ ~use_text_overlay =>
          /\ \A i \in DOMAIN calls : calls[i].config = TextConfig
          /\ Len(calls) = 2 =>
                /\ calls[2].site = "fallback_config"
                /\ calls[2].prompt # calls[1].prompt

C4_Witness ==
    /\ pc = "done"
    /\ use_text_overlay
    /\ Len(calls) = 2
    /\ calls[1].raised
    /\ ~calls[2].raised
    /\ result.image # <<>>

\* C5 as claimed: a fallback request that raises is followed by one bare
\* request to the fallback model with the rebuilt prompt.
C5_FallbackRetriedBare ==
    \A i \in FallbackCalls :
        (pc = "done" /\ calls[i].raised) =>
            /\ Len(calls) > i
            /\ calls[i + 1].config = NoConfig
            /\ calls[i + 1].model = FALLBACK_TEXT_TO_IMAGE_MODEL
            /\ calls[i + 1].prompt = fallback_prompt

\* C5 amended: the fallback request is sent once, with the sampling
\* configuration, to the fallback model and with the rebuilt prompt; if it
\* raises, no bare request follows and the request ends with the failure
\* outcome.
C5_FallbackSentOnceConfigured ==
    \A i \in FallbackCalls :
        /\ i = Len(calls)
        /\ calls[i].config = TextConfig
        /\ calls[i].model = FALLBACK_TEXT_TO_IMAGE_MODEL
        /\ calls[i].prompt = fallback_prompt
        /\ pc = "done"
        /\ calls[i].raised => result = FailureOutcome

C5_Witness ==
    /\ pc = "done"
    /\ Len(calls) = 2
    /\ calls[2].site = "fallback_config"
    /\ calls[2].raised

YieldsNoImage(resp) ==
    \/ ~resp.truthy
    \/ resp.candidates = <<>>
    \/ ~resp.candidates[1].has_content
    \/ FirstImagePart(resp.candidates[1].parts) = 0

\* C7: a response that yields no image ends the request with the no-image
\* outcome carrying the usedFallback flag, (None, used_fallback).
C7_NoImageCarriesFlag ==
    (EndedOnResponse /\ response.truthy /\ YieldsNoImage(response)) =>
        result = [ret |-> "tuple", image |-> <<>>, flag |-> used_fallback]

\* the payload decoded from the response the request ended on
DecodedPayload ==
    DecodePart(response.candidates[1].parts[
                   FirstImagePart(response.candidates[1].parts)])

\* C8: when an image was decoded, the returned bytes are the output of
\* add_text_overlay exactly when use_text_overlay is true or the fallback was
\* used; otherwise they are the decoded payload, and add_text_overlay was
\* not called.
C8_OverlayIffRequestedOrFallback ==
    (EndedOnResponse /\ ~YieldsNoImage(response)) =>
        /\ result.ret = "tuple"
        /\ Len(result.image) = 1
        /\ IF use_text_overlay \/ used_fallback
           THEN /\ overlay_inputs = <<DecodedPayload>>
                /\ result.image[1] = add_text_overlay(DecodedPayload, product_data)
           ELSE /\ overlay_inputs = <<>>
                /\ result.image[1] = DecodedPayload

C8_Witness ==
    /\ EndedOnResponse
    /\ ~use_text_overlay
    /\ used_fallback
    /\ result.image # <<>>
    /\ result.image[1].drawn # <<>>
    /\ result.image[1] # DecodedPayload

\* C9 as claimed: in either mode the prompt of the primary call contains the
\* product's price string.
C9_PriceInEveryPrompt ==
    pc \notin {"idle", "images"} =>
        PromptContains(generation_prompt, product_data.price)

\* C9 amended: in TEXT_BAKED mode, for every product, description and
\* background style, the prompt of the primary call contains the product's
\* price string verbatim.
C9_PriceInTextBakedPrompt ==
    (~use_text_overlay /\ pc \notin {"idle", "images"}) =>
        /\ PromptContains(generation_prompt, product_data.price)
        /\ calls # <<>> => PromptContains(calls[1].prompt, product_data.price)

C9_Witness ==
    /\ ~use_text_overlay
    /\ calls # <<>>
    /\ combined_image_description # <<>>
    /\ background_style = <<>>
    /\ PromptContains(calls[1].prompt, product_data.price)

\* the template lines that ask for text, a price or a call-to-action
TextInstructions ==
    {"Price: ", "- Include Spanish advertising text on the image",
     "- Add the price: ", "- Include an attractive Spanish call-to-action",
     "- All text must be in perfect Spanish"}

\* C10: the prompt sent on the fallback call is rebuilt: it holds a no-text
\* instruction, it holds neither the price string nor a line asking for
\* advertising text, a price or a call-to-action, and the prompt of the
\* failed primary call is no part of it.
C10_FallbackPromptRebuilt ==
    \A i \in FallbackCalls :
        /\ HasLine(calls[i].prompt,
                   "- No text or watermarks on the image (text will be added separately)")
        /\ ~PromptContains(calls[i].prompt, product_data.price)
        /\ \A line \in TextInstructions : ~HasLine(calls[i].prompt, line)
        /\ calls[i].prompt # calls[1].prompt
        /\ ~IsSubstring(Flatten(calls[1].prompt), Flatten(calls[i].prompt))

C10_Witness ==
    /\ FallbackCalls # {}
    /\ combined_image_description # <<>>
    /\ background_style # <<>>
    /\ PromptContains(generation_prompt, product_data.price)


(***************************************************************************)
(* Prompt tiers.                                                           *)
(***************************************************************************)
\* generate_instagram_ad has composed the prompt of its primary call
PromptComposed == generation_prompt # <<>>

\* the runs of the image description a prompt embeds
DescriptionIn(prompt) == SelectSeq(prompt, LAMBDA seg : seg.n > 0)

\* e is what is left of the description d when it is cut after some character
IsCutOf(e, d) ==
    /\ e # <<>>
    /\ Len(e) <= Len(d)
    /\ \A i \in 1..(Len(e) - 1) : e[i] = d[i]
    /\ e[Len(e)].t = d[Len(e)].t
    /\ e[Len(e)].n <= d[Len(e)].n

\* the prompt carries the segments segs in a row
ContainsSegs(prompt, segs) ==
    \E i \in 0..(Len(prompt) - Len(segs)) :
        SubSeq(prompt, i + 1, i + Len(segs)) = segs

\* the instruction lines that tell the three CLEAN tiers apart
CleanTierLine ==
    [full |-> "- Product prominently featured and well-lit in center",
     description |-> "- Stylish gradient background with colors matching the product",
     generic |-> "Modern gradient background with colors that complement the product."]

CleanTiersOf(prompt) ==
    {tier \in DOMAIN CleanTierLine : HasLine(prompt, CleanTierLine[tier])}

NoTextLines ==
    {"- No text or watermarks on the image", "- No text or watermarks",
     "No text on the image."}

\* C11: in CLEAN mode the prompt of the primary call is of exactly one tier,
\* fixed by whether the description and the background style are non-empty:
\* both -> the full tier, which embeds the description cut to at most 350
\* characters and the style; description only -> the description tier, which
\* embeds the description cut to at most 400 characters; no description ->
\* the generic tier, which embeds none.  Every tier has a no-text line, and a
\* description of any length is embedded as a prefix, never refused.
C11_CleanPromptTiers ==
    (PromptComposed /\ use_text_overlay) =>
        LET d == combined_image_description
            e == DescriptionIn(generation_prompt)
        IN  /\ \E line \in NoTextLines : HasLine(generation_prompt, line)
            /\ PromptContains(generation_prompt, product_data.title)
            /\ (d # <<>> /\ background_style # <<>>) =>
                  /\ CleanTiersOf(generation_prompt) = {"full"}
                  /\ IsCutOf(e, d)
                  /\ DescLen(e) = Min(DescLen(d), 350)
                  /\ ContainsSegs(generation_prompt, background_style)
            /\ (d # <<>> /\ background_style = <<>>) =>
                  /\ CleanTiersOf(generation_prompt) = {"description"}
                  /\ IsCutOf(e, d)
                  /\ DescLen(e) = Min(DescLen(d), 400)
            /\ d = <<>> =>
                  /\ CleanTiersOf(generation_prompt) = {"generic"}
                  /\ e = <<>>

\* a CLEAN request whose two images were described (more than 400
\* characters) and whose style is set: the full tier carries 350 of them
C11_Witness ==
    /\ PromptComposed
    /\ use_text_overlay
    /\ DescLen(combined_image_description) > 400
    /\ background_style # <<>>
    /\ DescLen(DescriptionIn(generation_prompt)) = 350
    /\ CleanTiersOf(generation_prompt) = {"full"}

\* the two halves of the TEXT_BAKED instruction line that names the
\* background: "- Beautiful {background_style} behind the product"
BackgroundLine == <<Lit("- Beautiful "), Lit(" behind the product")>>

\* the prompt names a background style in its instructions
RefersToBackground(prompt) ==
    \E i \in DOMAIN BackgroundLine : HasLine(prompt, BackgroundLine[i].t[1])

\* C12: in TEXT_BAKED mode the prompt of the primary call contains the
\* title, the price and a call-to-action instruction, and its tier follows
\* the description and the background style as in CLEAN mode: both -> the
\* prompt embeds both; description only -> it embeds the description and
\* does not refer to a background style; no description -> the generic
\* prompt, which embeds neither.
C12_TextBakedPromptTiers ==
    (PromptComposed /\ ~use_text_overlay) =>
        LET d == combined_image_description
            e == DescriptionIn(generation_prompt)
        IN  /\ PromptContains(generation_prompt, product_data.title)
            /\ PromptContains(generation_prompt, product_data.price)
            /\ HasLine(generation_prompt,
                       "- Include an attractive Spanish call-to-action")
            /\ (d # <<>> /\ background_style # <<>>) =>
                  /\ IsCutOf(e, d)
                  /\ ContainsSegs(generation_prompt, background_style)
            /\ (d # <<>> /\ background_style = <<>>) =>
                  /\ IsCutOf(e, d)
                  /\ ~RefersToBackground(generation_prompt)
            /\ d = <<>> =>
                  /\ e = <<>>
                  /\ background_style # <<>> =>
                        ~ContainsSegs(generation_prompt, background_style)

(***************************************************************************)
(* /generate-ad.                                                           *)
(***************************************************************************)
\* the error text of the backend call whose failure ended the request, <<>>
\* when the request did not end on a failed backend call
FatalBackendError ==
    IF analysis_error # <<>> THEN analysis_error
    ELSE IF /\ calls # <<>>
            /\ calls[Len(calls)].raised
            /\ result = ExceptionResult
    THEN calls[Len(calls)].error
    ELSE <<>>

\* C13: when the request to /generate-ad ends because a backend call (the
\* ad-concept analysis or an image generation) failed, the status is 503 if
\* the error text carries an overload marker and 500 if it carries none.
C13_OverloadAnswered503 ==
    (pc = "responded" /\ FatalBackendError # <<>>) =>
        http_status = (IF IsOverloadError(FatalBackendError) THEN 503 ELSE 500)

(***************************************************************************)
(* add_text_overlay.                                                       *)
(***************************************************************************)
\* a step other than the font loading fails for the arguments of the call
RenderBroken ==
    \/ ~args.image_data.valid
    \/ "title" \notin DOMAIN args.product
    \/ "price" \notin DOMAIN args.product
    \/ "draw" \in args.env.fails
    \/ "save" \in args.env.fails

\* C14: add_text_overlay never raises; when reading the image, the title or
\* price lookup, the drawing or the encoding fails it returns the bytes it
\* was given; when only the fonts fail to load it still renders, with the
\* built-in default font.
C14_OverlayNeverRaises ==
    pc = "returned" =>
        /\ ~ret.raised
        /\ RenderBroken => ret.value = args.image_data
        /\ ~RenderBroken =>
              /\ ret.value.valid
              /\ ret.value.id = args.image_data.id
              /\ ret.value.drawn # <<>>
              /\ ret.value.font = (IF "fonts" \in args.env.fails
                                   THEN "default" ELSE "DejaVuSans-Bold")

\* the font files alone fail to load and the overlay is drawn
C14_Witness ==
    /\ pc = "returned"
    /\ args.env.fails = {"fonts"}
    /\ ~RenderBroken
    /\ ret.value.font = "default"
    /\ Len(ret.value.drawn) >= 4

\* C15: every line the word-wrap loop produces, a line of a single word
\* included, is at most (canvas width - 40) pixels wide in the title font.
C15_WrappedLinesFit ==
    pc = "returned" =>
        \A i \in DOMAIN lines :
            TextWidth(lines[i], TitleFont(args.env)) <= args.env.width - 40

(***************************************************************************)
(* generate_color_palette.                                                 *)
(***************************************************************************)
PaletteEntries == {"primary", "light", "dark", "complement", "neutral"}

\* a text '#rrggbb' of lower-case hexadecimal digits
IsHexColor(text) ==
    /\ Len(text) = 7
    /\ text[1] = "#"
    /\ \A i \in 2..7 : \E v \in 1..16 : HexDigits[v] = text[i]

\* the palette's entries follow the rules for the colour rgb
FollowsRules(palette, rgb) ==
    /\ hex_to_rgb(palette.primary) = rgb
    /\ \A i \in 1..3 :
          /\ hex_to_rgb(palette.light)[i] =
                (IF rgb[i] + 60 > 255 THEN 255 ELSE rgb[i] + 60)
          /\ hex_to_rgb(palette.dark)[i] =
                (IF rgb[i] - 40 < 0 THEN 0 ELSE rgb[i] - 40)
          /\ hex_to_rgb(palette.complement)[i] = 255 - rgb[i]
    /\ hex_to_rgb(palette.neutral) = <<248, 249, 250>>

\* C16: for a dominant colour (r, g, b) given as the first of the list, the
\* palette has primary = the input, light = min(255, c + 60),
\* dark = max(0, c - 40), complement = 255 - c per channel and
\* neutral = (248, 249, 250), every entry a colour with channels in 0..255.
C16_PaletteRules ==
    (pc = "returned" /\ args.sample # <<>>) =>
        /\ ret.primary = args.dominant_colors[1]
        /\ \A entry \in PaletteEntries :
              /\ IsHexColor(ret[entry])
              /\ \A i \in 1..3 : hex_to_rgb(ret[entry])[i] \in 0..255
        /\ FollowsRules(ret, args.sample)

\* a colour whose channels meet both clamps: light is cut to 255 in one
\* channel, dark to 0 in another
C16_Witness ==
    /\ pc = "returned"
    /\ args.sample = <<230, 195, 0>>
    /\ hex_to_rgb(ret.light) = <<255, 255, 60>>
    /\ hex_to_rgb(ret.dark) = <<190, 155, 0>>
    /\ hex_to_rgb(ret.complement) = <<25, 60, 255>>

\* C17: every palette generate_color_palette returns, the default palette of
\* an absent or malformed input included, has light, dark and complement
\* derived from its own primary by the rules, and the fixed neutral.
C17_EveryPaletteFollowsRules ==
    pc = "returned" => FollowsRules(ret, hex_to_rgb(ret.primary))

(***************************************************************************)
(* create_background_prompt.                                               *)
(***************************************************************************)
\* the opening words of the four templates a title can select
TemplateOpening ==
    [gradient |-> "Modern gradient background from ",
     studio |-> "Professional studio setup with ",
     minimalist |-> "Contemporary minimalist background with ",
     elegant |-> "Elegant backdrop with "]

\* the template the priority order fashion, electronics, home gives a title
\* that contains keywords of the categories in keywords
TemplateByPriority(keywords) ==
    IF "fashion" \in keywords THEN "gradient"
    ELSE IF "tech" \in keywords THEN "studio"
    ELSE IF "home" \in keywords THEN "minimalist"
    ELSE "elegant"

\* C18: create_background_prompt answers every title, the empty one
\* included, with exactly one template: the gradient one when the title
\* contains a fashion keyword, else the studio-lighting one for an
\* electronics keyword, else the minimalist colour-blocking one for a home
\* keyword, else the generic elegant one, whatever the number and the order
\* of the keywords in the title.
C18_TemplateByPriority ==
    pc = "returned" =>
        /\ \E k \in 1..4 : ret = background_styles(args.color_palette)[k]
        /\ {name \in DOMAIN TemplateOpening :
                HasLine(ret, TemplateOpening[name])}
              = {TemplateByPriority(args.keywords)}
        /\ ContainsSegs(ret, <<Txt(args.color_palette.primary)>>)

\* a title with the electronics keyword twice and, after it, a fashion
\* keyword once: the gradient template is chosen
C18_Witness ==
    /\ pc = "returned"
    /\ args.keywords = {"fashion", "tech"}
    /\ IsSubstring(<<"l", "a", "p", "t", "o", "p", " ", "l", "a", "p", "t", "o", "p">>,
                   args.product_title)
    /\ HasLine(ret, TemplateOpening.gradient)

(***************************************************************************)
(* extract_dominant_colors.                                                *)
(***************************************************************************)
\* the pixels of the image with at least one channel at or below 240
PixelsToKeep ==
    SelectSeq(args.image.pixels,
              LAMBDA pixel : \E channel \in 1..3 : pixel[channel] <= 240)

\* C19: of a readable image extract_dominant_colors keeps exactly the pixels
\* with at least one channel at or below 240; when none is kept it returns
\* the three fixed greys and runs no clustering.
C19_NearWhiteDiscarded ==
    (pc = "returned" /\ args.image.valid) =>
        /\ ret.filtered_pixels = PixelsToKeep
        /\ PixelsToKeep = <<>> =>
              /\ ret.colors = <<rgb_to_hex(<<51, 51, 51>>),
                                rgb_to_hex(<<102, 102, 102>>),
                                rgb_to_hex(<<153, 153, 153>>)>>
              /\ ret.n_clusters = 0
        /\ PixelsToKeep # <<>> => ret.n_clusters > 0

\* an image of a pixel just above the threshold in every channel and a white
\* one: nothing is kept, the greys are returned
C19_Witness ==
    /\ pc = "returned"
    /\ args.image.valid
    /\ args.image.pixels = <<<<241, 241, 241>>, <<255, 255, 255>>>>
    /\ ret.colors = NearWhiteColors
    /\ ret.n_clusters = 0

\* the colours returned are n '#rrggbb' texts
ReturnsColors(n) ==
    /\ Len(ret.colors) = n
    /\ \A i \in DOMAIN ret.colors :
          /\ IsHexColor(ret.colors[i])
          /\ \A channel \in 1..3 : hex_to_rgb(ret.colors[i])[channel] \in 0..255

\* C20 as claimed: for an image with a pixel that is kept, the number of
\* colours returned is min(num_colors, number of distinct colours among the
\* kept pixels), each channel in 0..255.
C20_AsManyAsDistinctColors ==
    (pc = "returned" /\ args.image.valid /\ PixelsToKeep # <<>>) =>
        ReturnsColors(Min(args.num_colors,
                          Cardinality({PixelsToKeep[i] : i \in DOMAIN PixelsToKeep})))

\* C20 amended: the number of colours returned is min(num_colors, number of
\* kept pixels), pixels of equal colour counted each, each channel in 0..255.
C20_AsManyAsKeptPixels ==
    (pc = "returned" /\ args.image.valid /\ PixelsToKeep # <<>>) =>
        ReturnsColors(Min(args.num_colors, Len(PixelsToKeep)))

\* three kept pixels of one colour and num_colors = 5: three colours
C20_Witness ==
    /\ pc = "returned"
    /\ args.image.valid
    /\ args.num_colors = 5
    /\ Len(PixelsToKeep) = 3
    /\ Cardinality({PixelsToKeep[i] : i \in DOMAIN PixelsToKeep}) = 1
    /\ Len(ret.colors) = 3


(***************************************************************************)
(* Reference images that cannot be downloaded.                             *)
(***************************************************************************)
\* the outcomes of an iteration whose download_image returned None
DownloadFailures == {"download_error", "download_refused"}

\* the entries of the record written by the description loop
DescribeLog == SelectSeq(image_log, LAMBDA e : e.stage = "describe")

\* the entries of the description loop whose image was described
DescribedLog ==
    SelectSeq(DescribeLog, LAMBDA e : e.outcome \in {"described", "empty_text"})

\* the entries written by the download for the colour analysis
ColorsLog == SelectSeq(image_log, LAMBDA e : e.stage = "colors")

\* the description runs of the combined description, without the joiners
DescriptionRuns ==
    SelectSeq(combined_image_description, LAMBDA seg : seg # Ademas)

\* the combined description is the in-order concatenation of the
\* descriptions of the images that were described
InOrderConcatenation ==
    LET described == SelectSeq(DescribedLog, LAMBDA e : e.outcome = "described")
    IN  /\ Len(DescriptionRuns) = Len(described)
        /\ \A i \in DOMAIN described :
              DescriptionRuns[i] = VisionText(described[i].url, DescChars)[1]
        /\ \A e \in {DescribeLog[i] : i \in DOMAIN DescribeLog} :
              e.outcome \in DownloadFailures =>
                 \/ \E j \in DOMAIN DescribeLog :
                       DescribeLog[j].url = e.url
                       /\ DescribeLog[j].outcome = "described"
                 \/ \A seg \in {combined_image_description[i] :
                                   i \in DOMAIN combined_image_description} :
                       seg.t # VisionText(e.url, DescChars)[1].t

\* no failed download ends the call: the loop goes on to the next image and
\* the call goes on to its generation request
NeverAborted ==
    /\ pc = "images" =>
          /\ Len(DescribeLog) = image_index - 1
          /\ result = Pending
          /\ ENABLED NextImages
    /\ pc = "primary" => ENABLED PrimaryCall
    /\ pc \notin {"idle", "images"} =>
          /\ Len(DescribeLog) = Len(primary_image_urls)
          /\ generation_prompt # <<>>
    /\ pc = "done" => calls # <<>>

UsingScraper(r) ==
    \/ requests[r].at = "call" /\ requests[r].created # 0
    \/ requests[r].at = "navigate"

\* the scraper object the request r is using
ScraperOf(r) ==
    IF requests[r].at = "navigate" THEN requests[r].bound ELSE requests[r].created

\* C22: no mutable state is shared between requests served at the same
\* time: a request uses only a scraper it created itself, and while it uses
\* it no other request's teardown has closed it or cleared the global that
\* names it.
C22_NoSharedMutableState ==
    \A r \in DOMAIN requests :
        UsingScraper(r) =>
            /\ scraper_objects[ScraperOf(r)].creator = r
            /\ scraper_objects[ScraperOf(r)].closer = 0
            /\ scraper_objects[ScraperOf(r)].page # "closed"
            /\ scraper = ScraperOf(r)


(***************************************************************************)
(* The model of the first generation request.                              *)
(***************************************************************************)
\* the identifier the mode selects, lines 882-890
ModelOfMode == IF use_text_overlay THEN IMAGE_GENERATION_MODEL ELSE TEXT_TO_IMAGE_MODEL

\* C23: for every product and reference-image list, the first generation
\* request is made with IMAGE_GENERATION_MODEL when use_text_overlay is true
\* and with TEXT_TO_IMAGE_MODEL when it is false, whatever the images, the
\* palette and the prompt were.
C23_PrimaryModelByMode ==
    /\ pc \notin {"idle", "images"} => selected_model = ModelOfMode
    /\ calls # <<>> =>
          /\ calls[1].site = PrimarySite(use_text_overlay)
          /\ calls[1].model = ModelOfMode

\* the first request of TEXT_BAKED mode, after two reference images
C23_Witness ==
    /\ ~use_text_overlay
    /\ Len(primary_image_urls) = 2
    /\ calls # <<>>
    /\ calls[1].model = TEXT_TO_IMAGE_MODEL
    /\ calls[1].site = "text_config"


(***************************************************************************)
(* Requests rejected by validation.                                        *)
(***************************************************************************)
\* the url is missing or does not contain 'mercadolibre' in any case
UrlRejected(url) ==
    \/ url = <<>>
    \/ ~IsSubstring(<<"m", "e", "r", "c", "a", "d", "o", "l", "i", "b", "r", "e">>,
                    Lower(url))

PartsScanned ==
    /\ pc = "done"
    /\ calls # <<>>
    /\ ~calls[Len(calls)].raised
    /\ response.truthy
    /\ response.candidates # <<>>
    /\ response.candidates[1].has_content
    /\ response.candidates[1].parts # <<>>

\* the part carries no text and non-empty inline data that decodes
CarriesImage(part) ==
    /\ ~part.text
    /\ \/ part.inline = "bytes"
       \/ part.inline = "str" /\ part.wellformed

\* C25: for every parts sequence, parts carrying text, parts with empty
\* inline data and parts whose payload fails to decode are skipped without
\* ending the scan; the outcome is the image of the first part, in order,
\* whose non-empty inline data decodes, parts after it are not used, and
\* when there is no such part the outcome is the no-image outcome.
C25_FirstDecodablePartWins ==
    PartsScanned =>
        LET parts == response.candidates[1].parts
            images == {i \in DOMAIN parts : CarriesImage(parts[i])}
        IN  /\ result.ret = "tuple"
            /\ images = {} => (result.image = <<>> /\ overlay_inputs = <<>>)
            /\ images # {} =>
                  LET first == CHOOSE i \in images : \A j \in images : i <= j
                  IN  /\ Len(result.image) = 1
                      /\ result.image[1].id = parts[first].image.id
                      /\ result.image[1].valid = parts[first].image.valid
                      /\ overlay_inputs \in {<<>>, <<parts[first].image>>}

\* a base64 payload that does not decode is followed by raw bytes: the
\* second part's image is returned
C25_Witness ==
    /\ PartsScanned
    /\ Len(response.candidates[1].parts) = 2
    /\ response.candidates[1].parts[1].inline = "str"
    /\ ~response.candidates[1].parts[1].wellformed
    /\ response.candidates[1].parts[2].inline = "bytes"
    /\ result.image # <<>>
    /\ result.image[1].id = 2


(***************************************************************************)
(* The title lines add_text_overlay draws.                                 *)
(***************************************************************************)
\* add_text_overlay returned the image with its texts drawn
OverlayDrawn == pc = "returned" /\ ret.value.drawn # <<>>

\* the title lines among the texts drawn: all but subtitle, price and button
TitleLinesDrawn == SubSeq(ret.value.drawn, 1, Len(ret.value.drawn) - 3)

\* C26: add_text_overlay draws at most two title lines, which are exactly
\* the first two lines of the word-wrap, in order and as the wrap produced
\* them (nothing is appended to mark the cut); further lines are dropped.
C26_FirstTwoLinesDrawn ==
    OverlayDrawn =>
        /\ Len(ret.value.drawn) >= 3
        /\ SubSeq(ret.value.drawn, Len(ret.value.drawn) - 2, Len(ret.value.drawn))
              = <<Subtitle, <<"$">> \o args.product.price, Cta>>
        /\ Len(TitleLinesDrawn) <= 2
        /\ Len(TitleLinesDrawn) = (IF Len(lines) < 2 THEN Len(lines) ELSE 2)
        /\ \A i \in DOMAIN TitleLinesDrawn : TitleLinesDrawn[i] = lines[i]

\* a title wrapped into three lines, of which two are drawn
C26_Witness ==
    /\ OverlayDrawn
    /\ Len(lines) = 3
    /\ lines[3] # <<>>
    /\ TitleLinesDrawn = <<lines[1], lines[2]>>

(***************************************************************************)
(* The word-wrap keeps every word.                                         *)
(***************************************************************************)
\* add_text_overlay returned after its word-wrap loop ran
TitleWrapped ==
    /\ pc = "returned"
    /\ args.image_data.valid
    /\ "title" \in DOMAIN args.product
    /\ "price" \in DOMAIN args.product

RECURSIVE WordsOfLines(_)
\* the words of the lines ls, line after line
WordsOfLines(ls) ==
    IF ls = <<>> THEN <<>> ELSE Split(Head(ls)) \o WordsOfLines(Tail(ls))

\* C30: the word-wrap loses and reorders nothing: no line it produces is
\* empty, every word of the (pre-truncated) title is in exactly one line,
\* and the lines before the two-line cut, joined with single spaces, equal
\* the title's words joined with single spaces.
C30_WrapKeepsEveryWord ==
    TitleWrapped =>
        LET words == Split(OverlayTitle(args.product.title))
        IN  /\ \A i \in DOMAIN lines : lines[i] # <<>>
            /\ \A i \in DOMAIN lines : lines[i] = Join(Split(lines[i]))
            /\ WordsOfLines(lines) = words
            /\ Join(lines) = Join(words)

\* three words wrapped into two lines, one of them holding two words
C30_Witness ==
    /\ TitleWrapped
    /\ Len(Split(args.product.title)) = 3
    /\ Len(lines) = 2
    /\ \E i \in DOMAIN lines : Len(Split(lines[i])) = 2


(***************************************************************************)
(* Termination of generate_instagram_ad.                                   *)
(***************************************************************************)
\* the pairs of call sites of a request that made two generation calls
TwoCallPaths ==
    {<<"clean_config", "clean_bare">>, <<"text_config", "fallback_config">>}

\* at most two generation calls, the second only after the first raised
AtMostTwoCalls ==
    /\ Len(calls) <= 2
    /\ Len(calls) = 2 =>
          /\ calls[1].raised
          /\ <<calls[1].site, calls[2].site>> \in TwoCallPaths
          /\ calls[2].site = (IF use_text_overlay THEN "clean_bare"
                              ELSE "fallback_config")
          /\ use_text_overlay => calls[2].model = calls[1].model

\* the call has one outcome once it has ended, none before, and nothing
\* follows the end
ExactlyOneOutcome ==
    /\ pc = "done" => (result # Pending /\ calls # <<>> /\ ~ENABLED Next)
    /\ pc # "done" => result = Pending

\* C27: every call of generate_instagram_ad terminates with exactly one
\* outcome after at most two generation calls, whatever the backend does:
\* the configured and the bare request to the same model in CLEAN mode, the
\* primary and the fallback request in TEXT_BAKED mode; there is no third
\* call and no loop.
C27_TerminatesWithinTwoCalls ==
    /\ [](AtMostTwoCalls /\ ExactlyOneOutcome)
    /\ <>(pc = "done")

\* TEXT_BAKED mode: the primary and the fallback request have both raised
\* and the call has ended
C27_Witness ==
    /\ pc = "done"
    /\ ~use_text_overlay
    /\ Len(calls) = 2
    /\ calls[2].site = "fallback_config"
    /\ calls[2].raised
    /\ result # Pending


(***************************************************************************)
(* Candidates after the first.                                             *)
(***************************************************************************)
\* the request ended on a response that carries candidates
CandidatesReceived ==
    /\ pc = "done"
    /\ calls # <<>>
    /\ ~calls[Len(calls)].raised
    /\ response.truthy
    /\ response.candidates # <<>>

\* the identifiers of the images a candidate carries
ImagesOf(candidate) ==
    {candidate.parts[j].image.id :
        j \in {k \in DOMAIN candidate.parts : CarriesImage(candidate.parts[k])}}

\* C28: only the first candidate of a response is inspected: the image
\* returned is one of the first candidate, an image of a later candidate is
\* never returned or overlaid, and when the first candidate has no image
\* part the outcome carries no image whatever the other candidates hold.
C28_OnlyFirstCandidate ==
    CandidatesReceived =>
        LET first == response.candidates[1]
            later == UNION {ImagesOf(response.candidates[k]) :
                               k \in 2..Len(response.candidates)}
        IN  /\ \A i \in DOMAIN result.image :
                  /\ first.has_content
                  /\ result.image[i].id \in ImagesOf(first)
                  /\ result.image[i].id \notin later
            /\ \A i \in DOMAIN overlay_inputs :
                  /\ overlay_inputs[i].id \in ImagesOf(first)
                  /\ overlay_inputs[i].id \notin later
            /\ (~first.has_content \/ ImagesOf(first) = {}) =>
                  (result.image = <<>> /\ overlay_inputs = <<>>)

\* the first candidate holds only text, the second an image: no image is
\* returned
C28_Witness ==
    /\ CandidatesReceived
    /\ Len(response.candidates) = 2
    /\ response.candidates[1].has_content
    /\ response.candidates[1].parts # <<>>
    /\ ImagesOf(response.candidates[1]) = {}
    /\ ImagesOf(response.candidates[2]) # {}
    /\ result.ret = "tuple"
    /\ result.image = <<>>


(***************************************************************************)
(* The order of the steps of /generate-ad.                                 *)
(***************************************************************************)
\* generate_instagram_ad has been called by the request
GenerationStarted ==
    \/ pc \in {"images", "primary", "retry_bare", "fallback", "done"}
    \/ calls # <<>>
    \/ generation_prompt # <<>>
    \/ result # Pending

\* C29: in /generate-ad the image-generation step is never started when
\* analyze_product_info returned the overload or the error sentinel (the
\* request ends with 503 or 500), and an output file is written only after
\* generate_instagram_ad returned image bytes, which are what is written.
C29_StepsInOrder ==
    /\ ad_concept = MODEL_OVERLOADED_ERROR =>
          (pc = "responded" /\ http_status = 503 /\ ~GenerationStarted)
    /\ ad_concept = ErrorCreatingAdConcept =>
          (pc = "responded" /\ http_status = 500 /\ ~GenerationStarted)
    /\ analysis_error # <<>> => ~GenerationStarted
    /\ GenerationStarted => (ad_concept # <<>> /\ analysis_error = <<>>)
    /\ ~GenerationStarted => saved_files = <<>>
    /\ saved_files # <<>> =>
          /\ pc = "responded"
          /\ http_status = 200
          /\ result.ret = "tuple"
          /\ result.image # <<>>
          /\ saved_files = <<result.image[1]>>
    /\ (pc = "responded" /\ http_status = 200) => saved_files # <<>>

\* the analysis raised an error that is not an overload: the request ended
\* with 500 and generate_instagram_ad was not called
C29_Witness ==
    /\ pc = "responded"
    /\ ad_concept = ErrorCreatingAdConcept
    /\ analysis_error # <<>>
    /\ http_status = 500
    /\ calls = <<>>
    /\ saved_files = <<>>

====
